---- MODULE Spec2Model ----
(***************************************************************************)
(* Leatt: the event pipeline and detection engine of an endpoint           *)
(* data-leak-prevention agent.  The module models the heuristics engine,   *)
(* the process and network collectors, the trust whitelist, the shared     *)
(* event queue and the dashboard's alert acknowledgement, each as the      *)
(* state its Python class keeps and one action per method.                 *)
(*                                                                         *)
(* Conventions.  Time is in whole seconds of time.time(); a handler reads  *)
(* the clock once (every time.time() call of one handler returns now).     *)
(* An absent optional string (Python None) is the string NONE; an absent   *)
(* pid is NoPid.  A file path or registry key path is a record [cls, id]:  *)
(* cls is what the engine's substring tests find in the lower-cased path   *)
(* ("cred", "temp", "ssh", "run", or "plain" for none of them; NONE for a  *)
(* missing path), id tells two paths of one class apart.  A remote address *)
(* is a positive number, 0 when the event carries none.                    *)
(***************************************************************************)
EXTENDS Integers, Sequences, FiniteSets, TLC

VARIABLES
    now,                \* the wall clock, time.time()
    process_activities, \* HeuristicsEngine._process_activities: pid -> ProcessActivity
    alert_cooldowns,    \* HeuristicsEngine._alert_cooldowns: <<pattern, pid>> -> time
    alerts,             \* what the last analyze() call returned
    alertLog,           \* history: <<pattern, pid>> -> the times analyze raised that alert
    analyzed,           \* history: the number of analyze() calls made
    lastEvent,          \* history: the event of the last analyze() call
    lastOnCooldown,     \* history: the patterns on cooldown for its pid when it was made
    feed,               \* the one event source of a long single-source run
    evSeq,              \* the number of events that source has produced
    training_data,      \* MLAnomalyDetector._training_data
    alertStore,         \* the Alert table of the store: id -> row
    webCall,            \* history: the last dashboard or store call, its store before, its response
    event_queue,        \* the shared event queue, oldest event first
    queue_dropped,      \* the queue's dropped-events counter
    queueCall,          \* history: the last queue operation and the queue before it
    emitted,            \* history: collector -> the number of events it has enqueued
    delivered,          \* history: the events the consumer has taken, in order
    process_stats,      \* NetworkMonitor._process_stats: pid -> ProcessNetworkStats
    upload_tracking,    \* NetworkMonitor._upload_tracking: pid -> list of <<time, bytes_sent>>
    network_event_rows, \* the network events table of the store, in insertion order
    netScans,           \* history: the number of network scans made
    netPrev,            \* history: the time and per-process I/O of the scan before the last
    netCur,             \* history: the time and per-process I/O of the last scan
    netEmitted,         \* history: the events the last network scan enqueued
    cache,              \* Whitelist._cache: the set of its keys
    trust_db,           \* the TrustedProcess table of the store, in insertion order
    trustedSeen,        \* history: identifiers is_trusted answered true for since the last remove
    trustCall,          \* history: the last whitelist call and its result
    trustOps,           \* history: the number of whitelist calls made
    known_processes,    \* ProcessMonitor._known_processes: pid -> ProcessInfo
    pid_fingerprints,   \* ProcessMonitor._pid_fingerprints: pid -> <<name, path, create_time>>
    previous_io,        \* ProcessMonitor._previous_io: pid -> <<read_bytes, write_bytes>>
    process_records,    \* the ProcessRecord table of the store: <<name, path>> -> row
    procScans,          \* history: the number of process scans made
    procPrev,           \* history: the snapshot of the scan before the last
    procCur,            \* history: the snapshot of the last scan
    procEmitted,        \* history: the events the last process scan enqueued
    procFailed,         \* history: the PID whose store write raised in the last scan
    rules,              \* RulesEngine.rules: the list of Rule
    ruleAlerts,         \* the alerts the last evaluate() returned
    ruleCall,           \* history: the last call on the rules engine
    ruleOps,            \* history: the number of calls on the rules engine
    disabledNames,      \* history: the names disable_rule answered true for, not enabled since
    notif_enabled,      \* NotificationManager._enabled
    plyer_available,    \* NotificationManager._plyer_available
    history,            \* NotificationManager._history: the numbers of the notifications
    last_notification_time, \* NotificationManager._last_notification_time
    pending_count,      \* NotificationManager._pending_count
    npc,                \* thread -> where it is in notify()
    nlocal,             \* thread -> the locals of its notify() call
    forwarded,          \* history: the notifications handed to the channel, in order
    suppressedTotal,    \* history: the number of notify() calls the limiter suppressed
    notifyCalls,        \* history: the number of notify() calls begun
    sklearn_available,  \* MLAnomalyDetector._sklearn_available
    ml_model,           \* MLAnomalyDetector._model
    ml_scaler,          \* MLAnomalyDetector._scaler
    is_trained,         \* MLAnomalyDetector._is_trained
    ml_lock,            \* MLAnomalyDetector._lock: the thread that holds it
    tpc,                \* where the retrain thread is in train()
    dpc,                \* where the dispatcher thread is in the detector
    dlocal,             \* what the dispatcher's predict() call saw when it began
    lastPredict,        \* history: the last predict() call that returned
    lastTrain,          \* history: the last train() call of the retrain thread
    mlOps,              \* history: the number of calls the dispatcher made
    stop_event,         \* the threading.Event the collectors share: set or not
    registry_available, \* RegistryMonitor._available
    observer,           \* FileMonitor._observer: "none" or "running"
    cpc,                \* collector -> where its thread is in start()
    stopAt,             \* history: collector -> where it was when the flag was set
    key_snapshots,      \* RegistryMonitor._key_snapshots: key path -> name -> string
    rpc,                \* where the registry monitor is in start(): "init" or "loop"
    regScans,           \* history: the number of _scan_registry calls
    regRead,            \* history: what the last read of the watched key met
    regPrevRead,        \* history: what the read before the last met
    regEmitted,         \* history: the events the last tick put, in order
    file_event_rows,    \* the rows of the store's file_events table, oldest first
    fileCall,           \* history: the file system event the handler was last given
    fileEmitted,        \* history: the events that handler call put, in order
    fileOps             \* history: the number of file system events handled

heurVars == <<process_activities, alert_cooldowns, alerts, alertLog, analyzed,
              lastEvent, lastOnCooldown>>

coreVars == <<heurVars, feed, evSeq, training_data>>

webVars == <<alertStore, webCall>>

queueVars == <<event_queue, queue_dropped, queueCall, emitted, delivered>>

netVars == <<process_stats, upload_tracking, network_event_rows, netScans, netPrev,
             netCur, netEmitted>>

trustVars == <<cache, trust_db, trustedSeen, trustCall, trustOps>>

procVars == <<known_processes, pid_fingerprints, previous_io, process_records,
              procScans, procPrev, procCur, procEmitted, procFailed>>

ruleVars == <<rules, ruleAlerts, ruleCall, ruleOps, disabledNames>>

\* The variables of the rules engine and of the parts below it in this module.
notifVars == <<notif_enabled, plyer_available, history, last_notification_time,
               pending_count, npc, nlocal, forwarded, suppressedTotal, notifyCalls>>

mlVars == <<sklearn_available, ml_model, ml_scaler, is_trained, ml_lock, tpc, dpc,
            dlocal, lastPredict, lastTrain, mlOps>>

\* The variables of the parts below the notification manager in this module.
loopVars == <<stop_event, registry_available, observer, cpc, stopAt>>

regVars == <<key_snapshots, rpc, regScans, regRead, regPrevRead, regEmitted>>

fileVars == <<file_event_rows, fileCall, fileEmitted, fileOps>>

tailVars == <<mlVars, loopVars, regVars, fileVars>>

restVars == <<ruleVars, notifVars, tailVars>>

\* The variables of the parts above the rules engine in this module.
baseVars == <<now, coreVars, webVars, queueVars, netVars, trustVars, procVars>>

\* Every variable but those of the anomaly detector.
otherThanMl == <<now, heurVars, feed, evSeq, webVars, queueVars, netVars, trustVars,
                 procVars, ruleVars, notifVars, loopVars, regVars, fileVars>>

vars == <<baseVars, restVars>>

----------------------------------------------------------------------------
(* Values *)

NONE == "<none>"

NoPid == -1

\* The clock at start-up: any epoch time is far above the cooldown.
EpochNow == 1000

\* How far the clock runs in the heuristics specification.
MaxTime == 180

\* The number of analyze() calls of the heuristics specification.
MaxAnalyze == 3

\* The number of events of a long single-source run.
MaxFeed == 10001

MiB == 1048576

Min2(a, b) == IF a < b THEN a ELSE b

Max2(a, b) == IF a > b THEN a ELSE b

SetMax(S) == CHOOSE x \in S : \A y \in S : y <= x

\* s[-n:] of Python: the last n elements of s.
LastN(s, n) == IF Len(s) <= n THEN s ELSE SubSeq(s, Len(s) - n + 1, Len(s))

----------------------------------------------------------------------------
(* HeuristicsEngine *)

\* _load_patterns: the patterns in the order analyze() walks them.
PatternNames ==
    << "exfiltration_chain", "credential_theft", "rapid_file_enumeration",
       "staging_behavior", "registry_persistence", "multi_destination_upload",
       "ssh_key_access", "trusted_process_anomaly", "pid_hijack_attempt" >>

Patterns == { PatternNames[i] : i \in 1..Len(PatternNames) }

\* HeuristicPattern.risk_score of each pattern.
PatternRisk(p) ==
    CASE p = "exfiltration_chain"       -> 80
      [] p = "credential_theft"         -> 90
      [] p = "rapid_file_enumeration"   -> 60
      [] p = "staging_behavior"         -> 70
      [] p = "registry_persistence"     -> 85
      [] p = "multi_destination_upload" -> 65
      [] p = "ssh_key_access"           -> 75
      [] p = "trusted_process_anomaly"  -> 70
      [] p = "pid_hijack_attempt"       -> 95

CooldownSeconds == 60

CorrelationWindow == 60

MaxFileAccesses == 100

MaxNetworkEvents == 100

MaxRegistryEvents == 50

ExfilAgeSeconds == 300

ExfilMinBytes == 1048576

RapidMinAccesses == 50

PersistenceAgeSeconds == 600

MultiDestMinDestinations == 5

MultiDestMinBytes == 524288

\* ssh_key_access: exclude_processes, compared lower-cased.
SshExcluded == {"ssh", "sshd", "ssh-agent", "git"}

\* str.lower() on the process names the model uses.
Lower(s) ==
    CASE s = "App"  -> "app"
      [] s = "SSH"  -> "ssh"
      [] s = "Bash" -> "bash"
      [] OTHER      -> s

NoPath == [cls |-> NONE, id |-> 0]

\* ProcessActivity(pid, name) as _get_or_create_activity builds it.
NewActivity(name, t) ==
    [ name |-> name, first_seen |-> t,
      file_accesses |-> << >>, network_events |-> << >>, registry_events |-> << >>,
      sensitive_files_accessed |-> 0, bytes_uploaded |-> 0,
      unique_destinations |-> {}, risk_score |-> 0 ]

GetOrCreateActivity(acts, pid, name, t) ==
    IF pid \in DOMAIN acts THEN acts[pid] ELSE NewActivity(name, t)

\* _record_file_event without its truncation to the last 100 entries.
RecordFileEventNoTrim(a, ev, t) ==
    [ a EXCEPT
        !.sensitive_files_accessed = IF ev.is_sensitive THEN @ + 1 ELSE @,
        !.file_accesses = Append(@, [ path |-> ev.file_path, type |-> ev.data_event_type,
                                      timestamp |-> t, is_sensitive |-> ev.is_sensitive ]) ]

RecordFileEvent(a, ev, t) ==
    LET appended == Append(a.file_accesses,
                           [ path |-> ev.file_path, type |-> ev.data_event_type,
                             timestamp |-> t, is_sensitive |-> ev.is_sensitive ])
    IN [ a EXCEPT
           !.sensitive_files_accessed = IF ev.is_sensitive THEN @ + 1 ELSE @,
           !.file_accesses = IF Len(appended) > MaxFileAccesses
                             THEN LastN(appended, MaxFileAccesses)
                             ELSE appended ]

RecordNetworkEvent(a, ev, t) ==
    LET appended == Append(a.network_events,
                           [ remote_address |-> ev.remote_address,
                             bytes_uploaded |-> ev.bytes_uploaded,
                             timestamp |-> t ])
    IN [ a EXCEPT
           !.bytes_uploaded = IF ev.bytes_uploaded # 0 THEN @ + ev.bytes_uploaded ELSE @,
           !.unique_destinations = IF ev.remote_address # 0
                                   THEN @ \cup {ev.remote_address} ELSE @,
           !.network_events = IF Len(appended) > MaxNetworkEvents
                              THEN LastN(appended, MaxNetworkEvents)
                              ELSE appended ]

RecordRegistryEvent(a, ev, t) ==
    LET appended == Append(a.registry_events,
                           [ key_path |-> ev.key_path, change_type |-> ev.change_type,
                             timestamp |-> t ])
    IN [ a EXCEPT
           !.registry_events = IF Len(appended) > MaxRegistryEvents
                               THEN LastN(appended, MaxRegistryEvents)
                               ELSE appended ]

\* The source dispatch of analyze(): events of other sources record nothing.
RecordEvent(a, ev, t) ==
    CASE ev.source = "file_monitor"     -> RecordFileEvent(a, ev, t)
      [] ev.source = "network_monitor"  -> RecordNetworkEvent(a, ev, t)
      [] ev.source = "registry_monitor" -> RecordRegistryEvent(a, ev, t)
      [] OTHER                          -> a

\* A loop `for x in xs: y = x.get(k, "").lower(); if hit(y): return True` over the
\* entries of s: the first entry that decides is a hit (True) or an entry whose
\* value is None, on which .lower() raises (analyze() catches it: no match).
\* nones and hits are the indexes of the entries of either kind.
FirstDecides(nones, hits) ==
    LET idx == nones \cup hits
    IN  idx # {} /\ (CHOOSE j \in idx : \A k \in idx : j <= k) \notin nones

CheckExfiltrationChain(a, t) ==
    /\ ~(t - a.first_seen > ExfilAgeSeconds)
    /\ ~(a.sensitive_files_accessed < 1)
    /\ ~(a.bytes_uploaded < ExfilMinBytes)

CheckCredentialTheft(a) ==
    LET fa == a.file_accesses
    IN  FirstDecides({ i \in 1..Len(fa) : fa[i].path.cls = NONE },
                     { i \in 1..Len(fa) : fa[i].path.cls = "cred" })

CheckRapidEnumeration(a, t) ==
    Cardinality({ i \in 1..Len(a.file_accesses) :
                    a.file_accesses[i].timestamp > t - 60 }) >= RapidMinAccesses

\* CheckStagingBehavior with the upload test of the exfiltration chain.
CheckStagingBehaviorLargeUpload(a) ==
    LET fa     == a.file_accesses
        writes == { i \in 1..Len(fa) : fa[i].type \in {"created", "modified"} }
        temp   == { i \in writes : fa[i].path.cls = "temp" }
    IN  /\ temp # {}
        /\ LET latest == SetMax({ fa[i].timestamp : i \in temp })
           IN  \E j \in 1..Len(a.network_events) :
                  /\ a.network_events[j].timestamp > latest
                  /\ a.network_events[j].bytes_uploaded >= ExfilMinBytes

CheckStagingBehavior(a) ==
    LET fa     == a.file_accesses
        writes == { i \in 1..Len(fa) : fa[i].type \in {"created", "modified"} }
        raises == \E i \in writes : fa[i].path.cls = NONE
        temp   == { i \in writes : fa[i].path.cls = "temp" }
    IN  /\ ~raises
        /\ temp # {}
        /\ LET latest == SetMax({ fa[i].timestamp : i \in temp })
           IN  \E j \in 1..Len(a.network_events) :
                  /\ a.network_events[j].timestamp > latest
                  /\ a.network_events[j].bytes_uploaded > 0

CheckRegistryPersistence(a, t) ==
    /\ ~(t - a.first_seen > PersistenceAgeSeconds)
    /\ LET re == a.registry_events
       IN  FirstDecides({ i \in 1..Len(re) : re[i].key_path.cls = NONE },
                        { i \in 1..Len(re) : re[i].key_path.cls = "run" })

CheckMultiDestination(a) ==
    /\ ~(Cardinality(a.unique_destinations) < MultiDestMinDestinations)
    /\ ~(a.bytes_uploaded < MultiDestMinBytes)

CheckSshKeyAccess(a) ==
    /\ Lower(a.name) \notin SshExcluded
    /\ LET fa == a.file_accesses
       IN  FirstDecides({ i \in 1..Len(fa) : fa[i].path.cls = NONE },
                        { i \in 1..Len(fa) : fa[i].path.cls = "ssh" })

\* _evaluate_pattern: the checkers table; a pattern without a checker is False.
EvaluatePattern(a, p, t) ==
    CASE p = "exfiltration_chain"       -> CheckExfiltrationChain(a, t)
      [] p = "credential_theft"         -> CheckCredentialTheft(a)
      [] p = "rapid_file_enumeration"   -> CheckRapidEnumeration(a, t)
      [] p = "staging_behavior"         -> CheckStagingBehavior(a)
      [] p = "registry_persistence"     -> CheckRegistryPersistence(a, t)
      [] p = "multi_destination_upload" -> CheckMultiDestination(a)
      [] p = "ssh_key_access"           -> CheckSshKeyAccess(a)
      [] OTHER                          -> FALSE

\* A cooldown lookup whose key never matches the key _set_cooldown stored.
IsOnCooldownKeyMiss(cd, p, pid, t) ==
    LET last_alert == 0
    IN  t - last_alert < CooldownSeconds

IsOnCooldown(cd, p, pid, t) ==
    LET last_alert == IF <<p, pid>> \in DOMAIN cd THEN cd[<<p, pid>>] ELSE 0
    IN  t - last_alert < CooldownSeconds

\* The ladder with its first two rungs tested in the wrong order.
SeverityOfSwapped(risk) ==
    IF risk >= 70 THEN "HIGH"
    ELSE IF risk >= 90 THEN "CRITICAL"
    ELSE IF risk >= 50 THEN "MEDIUM"
    ELSE "LOW"

\* The severity ladder of analyze().
SeverityOf(risk) ==
    IF risk >= 90 THEN "CRITICAL"
    ELSE IF risk >= 70 THEN "HIGH"
    ELSE IF risk >= 50 THEN "MEDIUM"
    ELSE "LOW"

\* _cleanup_old_activities
CleanupOldActivities(acts, t) ==
    LET cutoff == t - CorrelationWindow * 2
        keep   == { pid \in DOMAIN acts : ~(acts[pid].first_seen < cutoff) }
    IN  [ pid \in keep |-> acts[pid] ]

\* A loop `for x in xs: y = x.get(k, "").lower(); ...` as above: it raises when
\* the first entry that decides holds None.
FirstRaises(nones, hits) ==
    LET idx == nones \cup hits
    IN  idx # {} /\ (CHOOSE j \in idx : \A k \in idx : j <= k) \in nones

\* _evaluate_pattern raises: the checker meets None where it calls .lower().
PatternRaises(a, p, t) ==
    LET fa == a.file_accesses
        re == a.registry_events
    IN  CASE p = "credential_theft" ->
               FirstRaises({ i \in 1..Len(fa) : fa[i].path.cls = NONE },
                           { i \in 1..Len(fa) : fa[i].path.cls = "cred" })
          [] p = "staging_behavior" ->
               \E i \in 1..Len(fa) : /\ fa[i].type \in {"created", "modified"}
                                      /\ fa[i].path.cls = NONE
          [] p = "registry_persistence" ->
               /\ ~(t - a.first_seen > PersistenceAgeSeconds)
               /\ FirstRaises({ i \in 1..Len(re) : re[i].key_path.cls = NONE },
                              { i \in 1..Len(re) : re[i].key_path.cls = "run" })
          [] p = "ssh_key_access" ->
               /\ Lower(a.name) \notin SshExcluded
               /\ FirstRaises({ i \in 1..Len(fa) : fa[i].path.cls = NONE },
                              { i \in 1..Len(fa) : fa[i].path.cls = "ssh" })
          [] OTHER -> FALSE

\* A bug analyze() could have: no try around _evaluate_pattern, so the patterns
\* after the first one that raises are not evaluated.
MatchedUntilRaise(a, pid, t) ==
    { i \in 1..Len(PatternNames) :
        /\ ~IsOnCooldown(alert_cooldowns, PatternNames[i], pid, t)
        /\ EvaluatePattern(a, PatternNames[i], t)
        /\ \A j \in 1..(i - 1) :
               \/ IsOnCooldown(alert_cooldowns, PatternNames[j], pid, t)
               \/ ~PatternRaises(a, PatternNames[j], t) }

\* The indexes of PatternNames that analyze() reports for the activity.
Matched(a, pid, t) ==
    { i \in 1..Len(PatternNames) :
        /\ ~IsOnCooldown(alert_cooldowns, PatternNames[i], pid, t)
        /\ EvaluatePattern(a, PatternNames[i], t) }

RECURSIVE AlertsOf(_, _, _)
AlertsOf(idx, i, ev) ==
    IF i > Len(PatternNames) THEN << >>
    ELSE IF i \in idx
         THEN << [ severity |-> SeverityOf(PatternRisk(PatternNames[i])),
                   source |-> <<"heuristics", PatternNames[i]>>,
                   process_name |-> ev.process_name ] >>
              \o AlertsOf(idx, i + 1, ev)
         ELSE AlertsOf(idx, i + 1, ev)

\* HeuristicsEngine.analyze(event)
Analyze(ev) ==
    IF ev.pid = NoPid
    THEN /\ alerts' = << >>
         /\ UNCHANGED <<process_activities, alert_cooldowns, alertLog>>
    ELSE LET t    == now
             a0   == GetOrCreateActivity(process_activities, ev.pid, ev.process_name, t)
             a1   == RecordEvent(a0, ev, t)
             idx  == Matched(a1, ev.pid, t)
             hit  == { <<PatternNames[i], ev.pid>> : i \in idx }
             risk == IF idx = {} THEN a1.risk_score
                     ELSE Max2(a1.risk_score,
                               SetMax({ PatternRisk(PatternNames[i]) : i \in idx }))
             a2   == [ a1 EXCEPT !.risk_score = risk ]
             acts == [ pid \in DOMAIN process_activities \cup {ev.pid} |->
                         IF pid = ev.pid THEN a2 ELSE process_activities[pid] ]
         IN  /\ alerts' = AlertsOf(idx, 1, ev)
             /\ alert_cooldowns' =
                    [ k \in DOMAIN alert_cooldowns \cup hit |->
                        IF k \in hit THEN t ELSE alert_cooldowns[k] ]
             /\ alertLog' =
                    [ k \in DOMAIN alertLog \cup hit |->
                        IF k \in hit
                        THEN Append(IF k \in DOMAIN alertLog THEN alertLog[k] ELSE << >>, t)
                        ELSE alertLog[k] ]
             /\ process_activities' = CleanupOldActivities(acts, t)

----------------------------------------------------------------------------
(* The events the heuristics specification feeds analyze() *)

HeurPids == {1234}

BaseEvent ==
    [ source |-> "process_monitor", event_type |-> "new_process", pid |-> NoPid,
      process_name |-> "unknown", file_path |-> NoPath, data_event_type |-> NONE,
      is_sensitive |-> FALSE, remote_address |-> 0, bytes_uploaded |-> 0,
      key_path |-> NoPath, change_type |-> NONE, is_trusted |-> FALSE ]

FileEvent(pid, name, cls, type, sens) ==
    [ BaseEvent EXCEPT !.source = "file_monitor", !.event_type = "file_" \o type,
                       !.pid = pid, !.process_name = name,
                       !.file_path = [cls |-> cls, id |-> 0],
                       !.data_event_type = type, !.is_sensitive = sens ]

NetworkEvent(pid, name, addr, bytes) ==
    [ BaseEvent EXCEPT !.source = "network_monitor", !.event_type = "high_upload",
                       !.pid = pid, !.process_name = name,
                       !.remote_address = addr, !.bytes_uploaded = bytes ]

RegistryEvent(pid, name, key) ==
    [ BaseEvent EXCEPT !.source = "registry_monitor", !.event_type = "registry_added",
                       !.pid = pid, !.process_name = name,
                       !.key_path = [cls |-> key, id |-> 0], !.change_type = "added" ]

ProcessEvent(pid, name, kind, trusted) ==
    [ BaseEvent EXCEPT !.event_type = kind, !.pid = pid, !.process_name = name,
                       !.is_trusted = trusted ]

HeurEvents ==
    UNION { { FileEvent(pid, "thief", "cred", "modified", TRUE),
              FileEvent(pid, "thief", "temp", "created", FALSE),
              FileEvent(pid, "thief", "ssh", "read", TRUE),
              NetworkEvent(pid, "thief", 1, 2048),
              NetworkEvent(pid, "thief", 2, MiB),
              RegistryEvent(pid, "thief", "run"),
              ProcessEvent(pid, "svc", "anomaly_trusted", TRUE),
              ProcessEvent(pid, "svc", "high_io", TRUE),
              ProcessEvent(pid, "svc", "many_connections", TRUE),
              [ ProcessEvent(pid, "svc", "high_upload", TRUE)
                  EXCEPT !.source = "network_monitor", !.bytes_uploaded = 60 * MiB ],
              ProcessEvent(pid, "thief", "pid_hijack", FALSE) } : pid \in HeurPids }
    \cup { FileEvent(NoPid, "unknown", "cred", "modified", TRUE) }

----------------------------------------------------------------------------
(* File paths as texts: a text is a sequence of characters. The checkers test  *)
(* a recorded path by substring after lower-casing; path.cls of a recorded     *)
(* path is the outcome of those tests.                                          *)

Uppers == <<"A", "B", "C", "D", "E", "F", "G", "H", "I", "J", "K", "L", "M", "N", "O", "P", "Q", "R", "S", "T", "U", "V", "W", "X", "Y", "Z">>

Lowers == <<"a", "b", "c", "d", "e", "f", "g", "h", "i", "j", "k", "l", "m", "n", "o", "p", "q", "r", "s", "t", "u", "v", "w", "x", "y", "z">>

LowerChar(c) ==
    IF \E i \in 1..Len(Uppers) : Uppers[i] = c
    THEN Lowers[CHOOSE i \in 1..Len(Uppers) : Uppers[i] = c]
    ELSE c

\* A text left as it is written.
LowerTextAsIs(s) == s

\* str.lower()
LowerText(s) == [ i \in 1..Len(s) |-> LowerChar(s[i]) ]

\* p in s, on texts
Contains(p, s) ==
    \E i \in 0..(Len(s) - Len(p)) : SubSeq(s, i + 1, i + Len(p)) = p

\* credential_file_patterns of credential_theft
CredentialFilePatterns ==
    << <<"L", "o", "g", "i", "n", " ", "D", "a", "t", "a">>,
       <<"c", "o", "o", "k", "i", "e", "s", ".", "s", "q", "l", "i", "t", "e">>,
       <<"k", "e", "y", "4", ".", "d", "b">>,
       <<"l", "o", "g", "i", "n", "s", ".", "j", "s", "o", "n">>,
       <<"C", "o", "o", "k", "i", "e", "s">> >>

\* The test _check_credential_theft runs on one recorded path.
IsCredentialPath(text) ==
    \E k \in 1..Len(CredentialFilePatterns) :
        Contains(LowerText(CredentialFilePatterns[k]), LowerText(text))

PathClass(text) == IF IsCredentialPath(text) THEN "cred" ELSE "plain"

\* str.upper(), to write a sample path in capitals.
UpperChar(c) ==
    IF \E i \in 1..Len(Lowers) : Lowers[i] = c
    THEN Uppers[CHOOSE i \in 1..Len(Lowers) : Lowers[i] = c]
    ELSE c

UpperText(s) == [ i \in 1..Len(s) |-> UpperChar(s[i]) ]

Cased(s, casing) ==
    CASE casing = "upper" -> UpperText(s)
      [] casing = "lower" -> LowerText(s)
      [] OTHER            -> s

\* A sample path: the k-th credential pattern, in the given casing, between a
\* directory and a tail; k = 0 for a path with no credential pattern in it.
SamplePath(dir, k, casing, tail) ==
    [ text    |-> dir \o (IF k = 0 THEN << >> ELSE Cased(CredentialFilePatterns[k], casing))
                      \o tail,
      pattern |-> k ]

UnixDir == <<"/", "p", "/">>

WindowsDir == <<"C", ":", "\\", "u", "\\">>

CredSamples ==
    << SamplePath(UnixDir, 2, "asis", << >>),
       SamplePath(WindowsDir, 1, "upper", << >>),
       SamplePath(UnixDir, 3, "upper", <<".", "b", "a", "k">>),
       SamplePath(UnixDir, 4, "asis", << >>),
       SamplePath(WindowsDir, 5, "lower", << >>),
       SamplePath(UnixDir, 0, "asis", <<"c", "o", "o", "k", "i", "e", ".", "t", "x", "t">>),
       SamplePath(WindowsDir, 0, "asis", <<"L", "o", "g", "i", "n", ".", "d", "a", "t">>) >>

\* The file event for the i-th sample path; the path's id is i.
CredFileEvent(pid, i) ==
    [ FileEvent(pid, "thief", PathClass(CredSamples[i].text), "modified", TRUE)
        EXCEPT !.file_path.id = i ]

HeurTickSteps == {59, 60}

Tick(d) ==
    /\ now + d <= EpochNow + MaxTime
    /\ now' = now + d
    /\ UNCHANGED <<coreVars, webVars, queueVars, netVars, trustVars, procVars, restVars>>

AnalyzeEvent(ev) ==
    /\ analyzed < MaxAnalyze
    /\ analyzed' = analyzed + 1
    /\ lastEvent' = ev
    /\ lastOnCooldown' = { p \in Patterns : IsOnCooldown(alert_cooldowns, p, ev.pid, now) }
    /\ Analyze(ev)
    /\ UNCHANGED <<now, feed, evSeq, training_data, webVars, queueVars, netVars, trustVars, procVars, restVars>>

\* Events with a key of the payload missing, and events the checkers match: a
\* file event without file_path, a registry event without key_path, a write of a
\* credential file, an upload, a change under a Run key.
MissingKeyEvents ==
    UNION { { FileEvent(pid, "thief", NONE, "modified", TRUE),
              RegistryEvent(pid, "thief", NONE),
              FileEvent(pid, "thief", "cred", "modified", TRUE),
              NetworkEvent(pid, "thief", 1, MiB),
              RegistryEvent(pid, "thief", "run") } : pid \in HeurPids }

\* The number of analyze() calls in the run of a process that stays active.
MaxSteadyAnalyze == 4

\* The events of a process that stays active: it reads a credential file and
\* uploads; each is recorded with the time of the call.
SteadyEvents ==
    { FileEvent(pid, "thief", "cred", "modified", TRUE) : pid \in HeurPids }
    \cup { NetworkEvent(pid, "thief", 1, 2048) : pid \in HeurPids }

\* analyze(event) called by the dispatcher in that run.
AnalyzeSteadyEvent(ev) ==
    /\ analyzed < MaxSteadyAnalyze
    /\ analyzed' = analyzed + 1
    /\ lastEvent' = ev
    /\ lastOnCooldown' = { p \in Patterns : IsOnCooldown(alert_cooldowns, p, ev.pid, now) }
    /\ Analyze(ev)
    /\ UNCHANGED <<now, feed, evSeq, training_data, webVars, queueVars, netVars, trustVars, procVars, restVars>>

----------------------------------------------------------------------------
(* MLAnomalyDetector: the training ring *)

TrainingMaxLen == 10000

\* deque(maxlen=n).append(x): a full deque drops its leftmost element.
DequeAppend(d, x, n) == LastN(Append(d, x), n)

\* add_training_sample(features); the feature array is the token x.
AddTrainingSample(x) ==
    training_data' = DequeAppend(training_data, x, TrainingMaxLen)

----------------------------------------------------------------------------
(* A long run of one source: every event of the run comes from the one source  *)
(* feed, for one process, and carries its number in the run.                   *)

FeedSources == {"file_monitor", "network_monitor", "registry_monitor", "ml"}

FeedPid == 1234

FeedUploadBytes == 1024

FeedEvent(src, k) ==
    CASE src = "file_monitor" ->
           [ FileEvent(FeedPid, "walker", "plain", "modified", TRUE)
               EXCEPT !.file_path.id = k ]
      [] src = "network_monitor" ->
           NetworkEvent(FeedPid, "walker", k, FeedUploadBytes)
      [] src = "registry_monitor" ->
           [ RegistryEvent(FeedPid, "walker", "other") EXCEPT !.key_path.id = k ]

AnalyzeFeed ==
    /\ feed \in FeedSources \ {"ml"}
    /\ evSeq < MaxFeed
    /\ evSeq' = evSeq + 1
    /\ analyzed' = analyzed + 1
    /\ lastEvent' = FeedEvent(feed, evSeq + 1)
    /\ lastOnCooldown' = { p \in Patterns : IsOnCooldown(alert_cooldowns, p, FeedPid, now) }
    /\ Analyze(FeedEvent(feed, evSeq + 1))
    /\ UNCHANGED <<now, feed, training_data, webVars, queueVars, netVars, trustVars, procVars, restVars>>

TrainFeed ==
    /\ feed = "ml"
    /\ evSeq < MaxFeed
    /\ evSeq' = evSeq + 1
    /\ AddTrainingSample(evSeq + 1)
    /\ UNCHANGED <<now, feed, heurVars, webVars, queueVars, netVars, trustVars, procVars, restVars>>

----------------------------------------------------------------------------
(* The Alert table of the store and the dashboard's acknowledge route *)

\* The number of alerts the store holds in the dashboard specification.
MaxAlerts == 2

AlertSeverities == {"LOW", "MEDIUM", "HIGH", "CRITICAL"}

NoResponse == [success |-> FALSE, error |-> NONE]

NoWebCall == [route |-> NONE, alert_id |-> 0, before |-> << >>, response |-> NoResponse]

\* Database.add_alert: a new row under the next id, not acknowledged.
AddAlertRow(store, sev) ==
    [ id \in DOMAIN store \cup {Cardinality(DOMAIN store) + 1} |->
        IF id \in DOMAIN store THEN store[id]
        ELSE [severity |-> sev, acknowledged |-> FALSE] ]

\* A bug acknowledge_alert could have: it flips the flag.
AcknowledgeStoreToggle(store, alert_id) ==
    IF alert_id \in DOMAIN store
    THEN [store EXCEPT ![alert_id].acknowledged = ~@]
    ELSE store

\* acknowledge_alert(alert_id): the table after the request.
AcknowledgeStore(store, alert_id) ==
    IF alert_id \in DOMAIN store
    THEN [store EXCEPT ![alert_id].acknowledged = TRUE]
    ELSE store

\* acknowledge_alert(alert_id): the JSON it answers.
AcknowledgeResponse(store, alert_id) ==
    IF alert_id \in DOMAIN store
    THEN [success |-> TRUE, error |-> NONE]
    ELSE [success |-> FALSE, error |-> "Alert not found"]

AddAlert(sev) ==
    /\ Cardinality(DOMAIN alertStore) < MaxAlerts
    /\ alertStore' = AddAlertRow(alertStore, sev)
    /\ webCall' = [route |-> "add_alert", alert_id |-> Cardinality(DOMAIN alertStore) + 1,
                   before |-> alertStore, response |-> [success |-> TRUE, error |-> NONE]]
    /\ UNCHANGED <<now, coreVars, queueVars, netVars, trustVars, procVars, restVars>>

\* POST /api/alerts/<alert_id>/acknowledge
AcknowledgeAlert(alert_id) ==
    /\ alertStore' = AcknowledgeStore(alertStore, alert_id)
    /\ webCall' = [route |-> "acknowledge", alert_id |-> alert_id, before |-> alertStore,
                   response |-> AcknowledgeResponse(alertStore, alert_id)]
    /\ UNCHANGED <<now, coreVars, queueVars, netVars, trustVars, procVars, restVars>>

----------------------------------------------------------------------------
(* The shared event queue: collectors put, the dispatcher's one consumer gets *)

\* The capacity of the queue in the model.
QueueCapacity == 3

\* The number of events each collector enqueues in the queue specification.
MaxEmit == 2

Collectors == {"process_monitor", "network_monitor", "file_monitor"}

NoQueueCall ==
    [op |-> NONE, before |-> << >>, dropped |-> 0, event |-> [source |-> NONE, seq |-> 0]]

\* A bug the queue could have: a full queue refuses the new event.
QueuePutDropNewest(q, ev) ==
    IF Len(q) >= QueueCapacity THEN q ELSE Append(q, ev)

\* put(event): a full queue evicts its oldest event, then takes the new one.
QueuePut(q, ev) ==
    IF Len(q) >= QueueCapacity THEN Append(Tail(q), ev) ELSE Append(q, ev)

\* The dropped-events counter after put(event) on queue q.
QueueDropped(q, n) ==
    IF Len(q) >= QueueCapacity THEN n + 1 ELSE n

\* A bug the consumer could have: it takes the newest event.
QueueGetNewest(q) == Len(q)

\* get(): the position in q of the event the consumer takes, the oldest.
QueueGetIndex(q) == 1

QueueGet(q) == q[QueueGetIndex(q)]

\* The queue after get().
QueueRest(q) ==
    SubSeq(q, 1, QueueGetIndex(q) - 1) \o SubSeq(q, QueueGetIndex(q) + 1, Len(q))

RECURSIVE PutAll(_, _)
\* The queue after a scan has put the events evs, in order.
PutAll(q, evs) ==
    IF evs = << >> THEN q ELSE PutAll(QueuePut(q, Head(evs)), Tail(evs))

RECURSIVE DroppedAll(_, _, _)
DroppedAll(q, n, evs) ==
    IF evs = << >> THEN n
    ELSE DroppedAll(QueuePut(q, Head(evs)), QueueDropped(q, n), Tail(evs))

\* What a scan that put the events evs leaves in the queue variables.
EnqueueAll(evs) ==
    /\ event_queue' = PutAll(event_queue, evs)
    /\ queue_dropped' = DroppedAll(event_queue, queue_dropped, evs)
    /\ queueCall' = IF evs = << >> THEN queueCall
                    ELSE [op |-> "put", before |-> event_queue, dropped |-> queue_dropped,
                          event |-> evs[Len(evs)]]
    /\ UNCHANGED <<emitted, delivered>>

\* The k-th event collector c enqueues.
CollectorEvent(c, k) == [source |-> c, seq |-> k]

\* event_queue.put(event) by collector c.
Emit(c) ==
    /\ emitted[c] < MaxEmit
    /\ LET ev == CollectorEvent(c, emitted[c] + 1)
       IN  /\ event_queue' = QueuePut(event_queue, ev)
           /\ queue_dropped' = QueueDropped(event_queue, queue_dropped)
           /\ queueCall' = [op |-> "put", before |-> event_queue,
                            dropped |-> queue_dropped, event |-> ev]
    /\ emitted' = [emitted EXCEPT ![c] = @ + 1]
    /\ UNCHANGED <<now, coreVars, webVars, delivered, netVars, trustVars, procVars, restVars>>

\* The consumer takes one event and hands it to the detection stack.
Deliver ==
    /\ event_queue # << >>
    /\ delivered' = Append(delivered, QueueGet(event_queue))
    /\ event_queue' = QueueRest(event_queue)
    /\ queueCall' = [op |-> "get", before |-> event_queue, dropped |-> queue_dropped,
                     event |-> QueueGet(event_queue)]
    /\ UNCHANGED <<now, coreVars, webVars, queue_dropped, emitted, netVars, trustVars,
                   procVars, restVars>>

----------------------------------------------------------------------------
(* NetworkMonitor *)

\* The number of scans of the network specification.
MaxNetScans == 3

MaxUploadMbPerMin == 50

UploadWindowSeconds == 60

StaleSeconds == 300

\* network.suspicious_ports of the configuration in the model.
SuspiciousPorts == {4444}

\* MonitorEvent(source, event_type, data, risk_score)
MonitorEvent(source, type, data, risk) ==
    [source |-> source, event_type |-> type, data |-> data, risk_score |-> risk]

RECURSIVE Ascending(_)
\* The elements of a set of numbers, smallest first: the order of a snapshot.
Ascending(S) ==
    IF S = {} THEN << >>
    ELSE LET m == CHOOSE x \in S : \A y \in S : x <= y
         IN  <<m>> \o Ascending(S \ {m})

RECURSIVE Concat(_, _)
\* f[ks[1]] \o f[ks[2]] \o ...
Concat(ks, f) ==
    IF ks = << >> THEN << >> ELSE f[Head(ks)] \o Concat(Tail(ks), f)

\* _check_suspicious_connection(conn): the events it puts.
CheckSuspiciousConnection(conn) ==
    IF conn.remote_port \in SuspiciousPorts
    THEN << MonitorEvent("network_monitor", "suspicious_port",
                         [pid |-> conn.pid, process_name |-> conn.process_name,
                          remote_address |-> conn.remote_address,
                          remote_port |-> conn.remote_port,
                          local_port |-> conn.local_port], 60) >>
    ELSE << >>

\* round(bytes / (1024 * 1024), 2), in hundredths of a MiB.
RoundMb(bytes) ==
    (bytes \div MiB) * 100 + ((bytes % MiB) * 100 + MiB \div 2) \div MiB

\* _check_upload_rate: the samples of pid after the append and the trim to the window.
UploadSamples(track, pid, bytes_sent, t) ==
    SelectSeq(Append(IF pid \in DOMAIN track THEN track[pid] ELSE << >>, <<t, bytes_sent>>),
              LAMBDA x : x[1] > t - UploadWindowSeconds)

\* _check_upload_rate: the events it puts, given the samples it kept.
UploadEvents(samples, pid, name) ==
    IF /\ Len(samples) >= 2
       /\ samples[Len(samples)][2] - samples[1][2] > MaxUploadMbPerMin * MiB
    THEN << MonitorEvent("network_monitor", "high_upload",
                         [pid |-> pid, process_name |-> name,
                          bytes_uploaded |-> samples[Len(samples)][2] - samples[1][2],
                          mb_uploaded |-> RoundMb(samples[Len(samples)][2] - samples[1][2]),
                          threshold_mb |-> MaxUploadMbPerMin], 70) >>
    ELSE << >>

\* _scan_network, d seconds after the clock's last reading; conns is what
\* _get_connections returns, io what _get_network_io returns (pid -> bytes_sent and
\* the process name psutil gives).
ScanNetwork(d, conns, io) ==
    LET t == now + d
        checked == SelectSeq(conns, LAMBDA c : c.status = "ESTABLISHED"
                                               /\ c.remote_address # 0)
        portEvents == Concat([i \in 1..Len(checked) |-> i],
                             [i \in 1..Len(checked) |-> CheckSuspiciousConnection(checked[i])])
        rated == { pid \in DOMAIN io \cap DOMAIN process_stats :
                     io[pid].bytes_sent - process_stats[pid].bytes_sent > 0 }
        track == [ pid \in DOMAIN upload_tracking \cup rated |->
                     IF pid \in rated
                     THEN UploadSamples(upload_tracking, pid, io[pid].bytes_sent, t)
                     ELSE upload_tracking[pid] ]
        uploadEvents == Concat(Ascending(rated),
                               [ pid \in rated |->
                                   UploadEvents(track[pid], pid, io[pid].process_name) ])
        stats == [ pid \in DOMAIN process_stats \cup DOMAIN io |->
                     IF pid \notin DOMAIN io THEN process_stats[pid]
                     ELSE IF pid \in DOMAIN process_stats
                     THEN [process_stats[pid] EXCEPT !.bytes_sent = io[pid].bytes_sent,
                                                     !.last_update = t]
                     ELSE [process_name |-> io[pid].process_name,
                           bytes_sent |-> io[pid].bytes_sent, last_update |-> t] ]
        stale == { pid \in DOMAIN stats : t - stats[pid].last_update > StaleSeconds }
    IN  /\ netScans < MaxNetScans
        /\ netScans' = netScans + 1
        /\ now' = t
        /\ process_stats' = [ pid \in DOMAIN stats \ stale |-> stats[pid] ]
        /\ upload_tracking' = [ pid \in DOMAIN track \ stale |-> track[pid] ]
        /\ network_event_rows' =
              network_event_rows \o
              [ i \in 1..Len(portEvents) |->
                  [process_pid |-> portEvents[i].data.pid,
                   remote_port |-> portEvents[i].data.remote_port] ]
        /\ netPrev' = netCur
        /\ netCur' = [t |-> t, io |-> io]
        /\ netEmitted' = portEvents \o uploadEvents
        /\ EnqueueAll(portEvents \o uploadEvents)
        /\ UNCHANGED <<coreVars, webVars, trustVars, procVars, restVars>>

NetPids == {9}

NetIntervals == {30, 301}

NetSent == {0, 60 * MiB, 120 * MiB}

\* What _get_network_io can return: each process absent, or present with a counter.
NetIo ==
    UNION { [ P -> [bytes_sent : NetSent, process_name : {"uploader"}] ] :
            P \in SUBSET NetPids }

\* What _get_connections can return.
NetConns ==
    { << >>,
      << [pid |-> 9, process_name |-> "uploader", remote_address |-> 7,
          remote_port |-> 4444, local_port |-> 50000, status |-> "ESTABLISHED"] >> }

----------------------------------------------------------------------------
(* Whitelist, and the TrustedProcess table of the store it reads and writes.    *)
(* A process path is a record [cls, id] as well: cls is "system" when the      *)
(* lower-cased path starts with one of the platform's system prefixes.         *)

\* The number of whitelist calls of the trust specification.
MaxTrustOps == 4

\* _load_system_defaults on a Unix host: the built-in names, lower-cased.
SystemProcesses ==
    { "systemd", "init", "kthreadd", "kworker", "ksoftirqd", "migration", "rcu_sched",
      "watchdog", "bash", "sh", "zsh", "fish", "sshd", "cron", "dbus-daemon",
      "networkmanager", "pulseaudio", "pipewire", "xorg", "gdm", "lightdm",
      "gnome-shell", "kwin" }

\* PlatformUtils.is_system_process(path)
IsSystemProcess(path) == path # NoPath /\ path.cls = "system"

\* f"{name.lower()}:{path or ''}:{hash_sha256 or ''}"
CacheKey(name, path, hash) == <<Lower(name), path, hash>>

\* Database.is_process_trusted(name, path, hash): the rows are tried as
\* (name, path, hash), then (name, path), then (name,); names compare exactly.
DbIsProcessTrusted(db, name, path, hash) ==
    \/ \E i \in 1..Len(db) : db[i].name = name /\ db[i].path = path /\ db[i].hash = hash
    \/ \E i \in 1..Len(db) : db[i].name = name /\ db[i].path = path
    \/ \E i \in 1..Len(db) : db[i].name = name

\* Database.add_trusted_process(name, path, hash, ...)
DbAddTrustedProcess(db, name, path, hash) ==
    Append(db, [name |-> name, path |-> path, hash |-> hash])

\* is_trusted without the test on the built-in names.
IsTrustedResultNoBuiltin(c, db, name, path, hash) ==
    \/ (path # NoPath /\ IsSystemProcess(path))
    \/ CacheKey(name, path, hash) \in c
    \/ DbIsProcessTrusted(db, name, path, hash)

\* is_trusted(name, path, hash): what it returns with cache c and table db.
IsTrustedResult(c, db, name, path, hash) ==
    \/ Lower(name) \in SystemProcesses
    \/ (path # NoPath /\ IsSystemProcess(path))
    \/ CacheKey(name, path, hash) \in c
    \/ DbIsProcessTrusted(db, name, path, hash)

\* is_trusted(name, path, hash): the cache it leaves.
IsTrustedCache(c, db, name, path, hash) ==
    IF \/ Lower(name) \in SystemProcesses
       \/ (path # NoPath /\ IsSystemProcess(path))
       \/ CacheKey(name, path, hash) \in c
    THEN c
    ELSE IF DbIsProcessTrusted(db, name, path, hash)
         THEN c \cup {CacheKey(name, path, hash)}
         ELSE c

\* remove(name, path): the positions of the rows its query selects.
RemoveMatches(db, name, path) ==
    { i \in 1..Len(db) : db[i].name = name /\ (path = NoPath \/ db[i].path = path) }

\* remove(name, path): the table after the first selected row, if any, is deleted.
RemoveRows(db, name, path) ==
    IF RemoveMatches(db, name, path) = {} THEN db
    ELSE LET i == CHOOSE j \in RemoveMatches(db, name, path) :
                      \A k \in RemoveMatches(db, name, path) : j <= k
         IN  SubSeq(db, 1, i - 1) \o SubSeq(db, i + 1, Len(db))

\* remove(name, path): the cache after it; the keys of the name go when a row went.
RemoveCache(c, db, name, path) ==
    IF RemoveMatches(db, name, path) = {} THEN c
    ELSE { k \in c : k[1] # Lower(name) }

TrustCallRecord(op, name, path, hash, result) ==
    [op |-> op, name |-> name, path |-> path, hash |-> hash, result |-> result]

NoTrustCall == TrustCallRecord(NONE, NONE, NoPath, NONE, FALSE)

IsTrusted(name, path, hash) ==
    /\ trustOps < MaxTrustOps
    /\ trustOps' = trustOps + 1
    /\ cache' = IsTrustedCache(cache, trust_db, name, path, hash)
    /\ trustCall' = TrustCallRecord("is_trusted", name, path, hash,
                                    IsTrustedResult(cache, trust_db, name, path, hash))
    /\ trustedSeen' = IF IsTrustedResult(cache, trust_db, name, path, hash)
                      THEN trustedSeen \cup {<<name, path, hash>>}
                      ELSE trustedSeen
    /\ UNCHANGED <<now, coreVars, webVars, queueVars, netVars, trust_db, procVars, restVars>>

Add(name, path, hash) ==
    /\ trustOps < MaxTrustOps
    /\ trustOps' = trustOps + 1
    /\ trust_db' = DbAddTrustedProcess(trust_db, name, path, hash)
    /\ cache' = cache \cup {CacheKey(name, path, hash)}
    /\ trustCall' = TrustCallRecord("add", name, path, hash, TRUE)
    /\ UNCHANGED <<now, coreVars, webVars, queueVars, netVars, trustedSeen, procVars, restVars>>

Remove(name, path) ==
    /\ trustOps < MaxTrustOps
    /\ trustOps' = trustOps + 1
    /\ trust_db' = RemoveRows(trust_db, name, path)
    /\ cache' = RemoveCache(cache, trust_db, name, path)
    /\ trustCall' = TrustCallRecord("remove", name, path, NONE,
                                    RemoveMatches(trust_db, name, path) # {})
    /\ trustedSeen' = {}
    /\ UNCHANGED <<now, coreVars, webVars, queueVars, netVars, procVars, restVars>>

ClearCache ==
    /\ trustOps < MaxTrustOps
    /\ trustOps' = trustOps + 1
    /\ cache' = {}
    /\ trustCall' = TrustCallRecord("clear_cache", NONE, NoPath, NONE, TRUE)
    /\ UNCHANGED <<now, coreVars, webVars, queueVars, netVars, trust_db, trustedSeen,
                   procVars, restVars>>

PlainPath == [cls |-> "plain", id |-> 1]

SystemPath == [cls |-> "system", id |-> 1]

\* The identifiers is_trusted is asked about.
TrustQueries ==
    ({"App", "app"} \X {NoPath, PlainPath} \X {NONE, "h1"})
        \cup { <<"bash", NoPath, NONE>>, <<"app", SystemPath, NONE>>,
               <<"Bash", PlainPath, "h1">> }

\* The identifiers add is given.
TrustAdds == { <<"App", NoPath, NONE>>, <<"App", PlainPath, "h1">>, <<"bash", NoPath, NONE>> }

\* The identifiers remove is given.
TrustRemoves == { <<"App", NoPath>>, <<"app", NoPath>>, <<"bash", NoPath>> }

\* What is_trusted can be asked about a built-in name: any case, path and hash.
BuiltinQueries == {"bash", "Bash"} \X {NoPath, PlainPath} \X {NONE, "h1"}

----------------------------------------------------------------------------
(* ProcessMonitor.  A snapshot is a function pid -> sample, the fields psutil  *)
(* gives for the process; risk scores are in tenths of a point.                *)

\* The number of scans of the process specification.
MaxProcScans == 3

ProcessInterval == 5

RecentSeconds == 60

\* _get_process_info: the ProcessInfo of a sample.
ProcessInfo(pid, smp) ==
    [pid |-> pid, name |-> smp.name, path |-> smp.path, create_time |-> smp.create_time,
     cpu_percent |-> smp.cpu_percent, memory_percent |-> smp.memory_percent,
     num_connections |-> smp.num_connections, read_bytes |-> smp.read_bytes,
     write_bytes |-> smp.write_bytes, cmdline_suspicious |-> smp.cmdline_suspicious,
     file_hash |-> smp.file_hash, is_trusted |-> FALSE, risk_score |-> 0,
     hash_sha256 |-> NONE]

\* _calculate_risk_score(info), in tenths.
CalculateRiskScore(info) ==
    IF info.is_trusted
    THEN Min2(500,
              (IF info.num_connections > 100
               THEN Min2(300, (info.num_connections - 100) * 3) ELSE 0)
              + (IF info.write_bytes > 500 * MiB THEN 200 ELSE 0)
              + (IF info.cpu_percent > 90 THEN 100 ELSE 0))
    ELSE Min2(1000,
              (IF info.path = NoPath THEN 200 ELSE 0)
              + (IF info.num_connections > 10
                 THEN Min2(200, info.num_connections * 5) ELSE 0)
              + (IF info.memory_percent > 5
                 THEN Min2(150, info.memory_percent * 10) ELSE 0)
              + (IF info.cpu_percent > 50
                 THEN Min2(150, (info.cpu_percent - 50) * 3) ELSE 0)
              + (IF info.write_bytes > 50 * MiB THEN 150 ELSE 0)
              + (IF info.cmdline_suspicious THEN 150 ELSE 0))

\* _save_process_to_db(info): the ProcessRecord table after the upsert by (name, path).
SaveProcessToDb(records, info) ==
    LET key == <<info.name, info.path>>
    IN  IF key \in DOMAIN records
        THEN [records EXCEPT ![key].pid = info.pid, ![key].is_trusted = info.is_trusted,
                             ![key].risk_score = info.risk_score]
        ELSE [ k \in DOMAIN records \cup {key} |->
                 IF k = key
                 THEN [pid |-> info.pid, hash_sha256 |-> info.hash_sha256,
                       is_trusted |-> info.is_trusted, risk_score |-> info.risk_score]
                 ELSE records[k] ]

\* dict[pid] = v
Assign(f, k, v) == [ x \in DOMAIN f \cup {k} |-> IF x = k THEN v ELSE f[x] ]

\* A process that counts as recently started whenever it started.
IsRecentlyStartedAlways(create_time, t) == TRUE

\* is_recently_started of _check_new_process: an unknown create time (0) is an
\* infinite age.
IsRecentlyStarted(create_time, t) == create_time > 0 /\ t - create_time < RecentSeconds

\* _check_new_process(info) at time t, on the collector state st; the info it
\* leaves is stored by the caller in _known_processes.
CheckNewProcess(st, info0, t) ==
    LET hash == IF info0.path # NoPath THEN info0.file_hash ELSE NONE
        trusted == IsTrustedResult(st.cache, st.db, info0.name, info0.path, hash)
        info1 == [info0 EXCEPT !.hash_sha256 = hash, !.is_trusted = trusted]
        info == [info1 EXCEPT !.risk_score = CalculateRiskScore(info1)]
        recent == IsRecentlyStarted(info.create_time, t)
    IN  [st EXCEPT
           !.cache = IsTrustedCache(st.cache, st.db, info0.name, info0.path, hash),
           !.fps = Assign(st.fps, info.pid, <<info.name, info.path, info.create_time>>),
           !.records = SaveProcessToDb(st.records, info),
           !.known = Assign(st.known, info.pid, info),
           !.events =
               IF ~trusted /\ recent
               THEN Append(st.events,
                      MonitorEvent("process_monitor", "new_process",
                                   [pid |-> info.pid, process_name |-> info.name,
                                    path |-> info.path, is_trusted |-> trusted,
                                    risk_score |-> info.risk_score,
                                    process_age_seconds |-> t - info.create_time], 0))
               ELSE st.events]

\* A bug _check_pid_hijacking could have: it compares the names, not the create times.
PidHijackedByName(fp, info) == info.name # fp[1]

\* _check_pid_hijacking: the create_time test on the fingerprint fp.
PidHijacked(fp, info) == info.create_time # fp[3]

\* _check_pid_hijacking: the name and path test on the fingerprint fp.
ProcessMutated(fp, info) == info.name # fp[1] \/ info.path # fp[2]

IdentityEvent(type, fp, info, risk) ==
    MonitorEvent("process_monitor", type,
                 [pid |-> info.pid, process_name |-> info.name, path |-> info.path,
                  old_name |-> fp[1], old_path |-> fp[2],
                  is_trusted |-> info.is_trusted], risk)

\* _check_pid_hijacking(info): what it returns.
CheckPidHijackingResult(st, info) ==
    /\ info.pid \in DOMAIN st.fps
    /\ PidHijacked(st.fps[info.pid], info) \/ ProcessMutated(st.fps[info.pid], info)

\* _check_pid_hijacking(info): the collector state it leaves.
CheckPidHijacking(st, info) ==
    IF info.pid \notin DOMAIN st.fps THEN st
    ELSE IF PidHijacked(st.fps[info.pid], info)
    THEN [st EXCEPT
            !.events = Append(@, IdentityEvent("pid_hijack", st.fps[info.pid], info, 80)),
            !.fps = Assign(@, info.pid, <<info.name, info.path, info.create_time>>)]
    ELSE IF ProcessMutated(st.fps[info.pid], info)
    THEN [st EXCEPT
            !.events = Append(@, IdentityEvent("process_mutation", st.fps[info.pid],
                                               info, 90))]
    ELSE st

\* _check_process_behavior(info)
CheckProcessBehavior(st, info) ==
    LET prev == IF info.pid \in DOMAIN st.pio THEN st.pio[info.pid] ELSE <<0, 0>>
        dRead == info.read_bytes - prev[1]
        dWrite == info.write_bytes - prev[2]
        ioThreshold == IF info.is_trusted THEN 100 * MiB ELSE 10 * MiB
        connThreshold == IF info.is_trusted THEN 200 ELSE 50
        ioEvents ==
            IF dRead > ioThreshold \/ dWrite > ioThreshold
            THEN << MonitorEvent("process_monitor",
                       IF info.is_trusted THEN "anomaly_trusted" ELSE "high_io",
                       [pid |-> info.pid, process_name |-> info.name, path |-> info.path,
                        read_bytes_delta |-> dRead, write_bytes_delta |-> dWrite,
                        is_trusted |-> info.is_trusted],
                       IF info.is_trusted THEN 40 ELSE 60) >>
            ELSE << >>
        connEvents ==
            IF info.num_connections > connThreshold
            THEN << MonitorEvent("process_monitor", "many_connections",
                       [pid |-> info.pid, process_name |-> info.name, path |-> info.path,
                        num_connections |-> info.num_connections,
                        is_trusted |-> info.is_trusted],
                       IF info.is_trusted THEN 30 ELSE 50) >>
            ELSE << >>
    IN  [st EXCEPT !.pio = Assign(@, info.pid, <<info.read_bytes, info.write_bytes>>),
                   !.events = @ \o ioEvents \o connEvents]

\* A bug _scan_processes could have: after a reported change of identity it goes
\* on without _check_new_process, so the fingerprint keeps the old name and path.
ScanOneNoRefresh(st, info, t) ==
    IF info.pid \notin DOMAIN st.known
    THEN CheckNewProcess(st, info, t)
    ELSE IF CheckPidHijackingResult(st, info)
    THEN [CheckPidHijacking(st, info) EXCEPT !.known = Assign(@, info.pid, info)]
    ELSE LET trusted == IsTrustedResult(st.cache, st.db, info.name, info.path, NONE)
             info1 == [info EXCEPT !.is_trusted = trusted]
             info2 == [info1 EXCEPT !.risk_score = CalculateRiskScore(info1)]
             st1 == [st EXCEPT !.cache = IsTrustedCache(st.cache, st.db, info.name,
                                                         info.path, NONE)]
         IN  [CheckProcessBehavior(st1, info2) EXCEPT
                !.known = Assign(@, info.pid, info2)]

\* The body of the loop of _scan_processes for one process of the snapshot.
ScanOne(st, info, t) ==
    IF info.pid \notin DOMAIN st.known
    THEN CheckNewProcess(st, info, t)
    ELSE IF CheckPidHijackingResult(st, info)
    THEN CheckNewProcess(CheckPidHijacking(st, info), info, t)
    ELSE LET trusted == IsTrustedResult(st.cache, st.db, info.name, info.path, NONE)
             info1 == [info EXCEPT !.is_trusted = trusted]
             info2 == [info1 EXCEPT !.risk_score = CalculateRiskScore(info1)]
             st1 == [st EXCEPT !.cache = IsTrustedCache(st.cache, st.db, info.name,
                                                         info.path, NONE)]
         IN  [CheckProcessBehavior(st1, info2) EXCEPT
                !.known = Assign(@, info.pid, info2)]

RECURSIVE ScanAll(_, _, _, _)
\* The loop of _scan_processes over the snapshot, in the order pids.
ScanAll(st, pids, snapshot, t) ==
    IF pids = << >> THEN st
    ELSE ScanAll(ScanOne(st, ProcessInfo(Head(pids), snapshot[Head(pids)]), t),
                 Tail(pids), snapshot, t)

\* _scan_processes, ProcessInterval seconds after the clock's last reading.
ScanProcesses(snapshot) ==
    LET t == now + ProcessInterval
        st0 == [known |-> known_processes, fps |-> pid_fingerprints, pio |-> previous_io,
                cache |-> cache, db |-> trust_db, records |-> process_records,
                events |-> << >>]
        st == ScanAll(st0, Ascending(DOMAIN snapshot), snapshot, t)
        terminated == DOMAIN st.known \ DOMAIN snapshot
    IN  /\ procScans < MaxProcScans
        /\ procScans' = procScans + 1
        /\ now' = t
        /\ known_processes' = [ pid \in DOMAIN st.known \ terminated |-> st.known[pid] ]
        /\ previous_io' = [ pid \in DOMAIN st.pio \ terminated |-> st.pio[pid] ]
        /\ pid_fingerprints' = st.fps
        /\ cache' = st.cache
        /\ process_records' = st.records
        /\ procPrev' = procCur
        /\ procCur' = snapshot
        /\ procEmitted' = st.events
        /\ procFailed' = NoPid
        /\ EnqueueAll(st.events)
        /\ UNCHANGED <<coreVars, webVars, netVars, trust_db, trustedSeen, trustCall,
                       trustOps, restVars>>

\* _check_new_process is run for this process: it is new, or its PID was reused or
\* its identity changed.
SavesProcess(st, info) ==
    info.pid \notin DOMAIN st.known \/ CheckPidHijackingResult(st, info)

\* The body of the loop for a process whose _save_process_to_db raises: what
\* _check_pid_hijacking and _check_new_process did before the store write.
ScanOneUntilSave(st, info, t) ==
    LET st1 == IF info.pid \in DOMAIN st.known THEN CheckPidHijacking(st, info) ELSE st
        st2 == CheckNewProcess(st1, info, t)
    IN  [st1 EXCEPT !.cache = st2.cache, !.fps = st2.fps]

RECURSIVE ScanAllStoreError(_, _, _, _, _)
\* The loop of _scan_processes when the store write for failPid raises: the loop
\* catches psutil.NoSuchProcess and psutil.AccessDenied only, so the error leaves it.
ScanAllStoreError(st, pids, snapshot, t, failPid) ==
    IF pids = << >> THEN [st |-> st, raised |-> FALSE]
    ELSE LET info == ProcessInfo(Head(pids), snapshot[Head(pids)])
         IN  IF Head(pids) = failPid /\ SavesProcess(st, info)
             THEN [st |-> ScanOneUntilSave(st, info, t), raised |-> TRUE]
             ELSE ScanAllStoreError(ScanOne(st, info, t), Tail(pids), snapshot, t, failPid)

\* _scan_processes in which the store write for failPid raises; the exception
\* reaches start(), which logs it and waits for the next tick.
ScanProcessesStoreError(snapshot, failPid) ==
    LET t == now + ProcessInterval
        st0 == [known |-> known_processes, fps |-> pid_fingerprints, pio |-> previous_io,
                cache |-> cache, db |-> trust_db, records |-> process_records,
                events |-> << >>]
        r == ScanAllStoreError(st0, Ascending(DOMAIN snapshot), snapshot, t, failPid)
    IN  /\ procScans < MaxProcScans
        /\ failPid \in DOMAIN snapshot
        /\ r.raised
        /\ procScans' = procScans + 1
        /\ now' = t
        /\ known_processes' = r.st.known
        /\ previous_io' = r.st.pio
        /\ pid_fingerprints' = r.st.fps
        /\ cache' = r.st.cache
        /\ process_records' = r.st.records
        /\ procPrev' = procCur
        /\ procCur' = snapshot
        /\ procEmitted' = r.st.events
        /\ procFailed' = failPid
        /\ EnqueueAll(r.st.events)
        /\ UNCHANGED <<coreVars, webVars, netVars, trust_db, trustedSeen, trustCall,
                       trustOps, restVars>>

ProcPids == {7}

\* What psutil can report of a process: who it is, when it started, how busy it is.
ProcSamples ==
    { [name |-> id[1], path |-> id[2], create_time |-> ct, cpu_percent |-> 0,
       memory_percent |-> 0, num_connections |-> load[1], read_bytes |-> 0,
       write_bytes |-> load[2], cmdline_suspicious |-> FALSE, file_hash |-> NONE] :
      id \in { <<"App", PlainPath>>, <<"evil", PlainPath>>, <<"evil", NoPath>> },
      ct \in {900, 990},
      load \in { <<0, 0>>, <<250, 120 * MiB>> } }

ProcSnapshots == UNION { [ P -> ProcSamples ] : P \in SUBSET ProcPids }

\* The snapshots of the scans of a lightly or heavily loaded process: its
\* connections, its share of the memory and of the processor vary.
LoadSnapshots ==
    UNION { [ P -> { [name |-> "evil", path |-> path, create_time |-> 900,
                      cpu_percent |-> load[3], memory_percent |-> load[2],
                      num_connections |-> load[1], read_bytes |-> 0, write_bytes |-> 0,
                      cmdline_suspicious |-> FALSE, file_hash |-> NONE] :
                     path \in {PlainPath, NoPath},
                     load \in {4, 30} \X {3, 20} \X {0, 60} } ] :
            P \in SUBSET ProcPids }

\* The snapshots of the scans with store errors: up to two idle processes.
StoreErrorSnapshots ==
    UNION { [ P -> { smp \in ProcSamples : /\ smp.create_time = 900
                                            /\ smp.num_connections = 0
                                            /\ smp.path = PlainPath } ] :
            P \in SUBSET {7, 8} }

----------------------------------------------------------------------------
(* The dashboard's whitelist routes beside a running process collector.  Each  *)
(* route builds a Whitelist of its own, whose cache starts empty and is lost   *)
(* with the request; the collector's Whitelist keeps the cache of its scans.   *)
(* Both read and write the one table of the store.                             *)

\* POST /api/whitelist: Whitelist().add(name, path), with a non-empty name.
AddToWhitelist(name, path) ==
    /\ trustOps < MaxTrustOps
    /\ trustOps' = trustOps + 1
    /\ trust_db' = DbAddTrustedProcess(trust_db, name, path, NONE)
    /\ trustCall' = TrustCallRecord("add", name, path, NONE, TRUE)
    /\ UNCHANGED <<now, coreVars, webVars, queueVars, netVars, cache, trustedSeen,
                   procVars, restVars>>

\* DELETE /api/whitelist/{name}: Whitelist().remove(name); the keys it purges
\* are those of the route's own, empty cache.
RemoveFromWhitelist(name) ==
    /\ trustOps < MaxTrustOps
    /\ trustOps' = trustOps + 1
    /\ trust_db' = RemoveRows(trust_db, name, NoPath)
    /\ trustCall' = TrustCallRecord("remove", name, NoPath, NONE,
                                    RemoveMatches(trust_db, name, NoPath) # {})
    /\ UNCHANGED <<now, coreVars, webVars, queueVars, netVars, cache, trustedSeen,
                   procVars, restVars>>

\* The names the dashboard's user sends.
DashboardNames == {"App"}

\* The snapshots of the scans beside the dashboard: one idle process or none.
DashboardSnapshots ==
    UNION { [ P -> { smp \in ProcSamples : /\ smp.create_time = 900
                                            /\ smp.num_connections = 0
                                            /\ smp.path = PlainPath } ] :
            P \in SUBSET ProcPids }

----------------------------------------------------------------------------
(* RulesEngine. An event is a MonitorEvent; its data is a record that holds    *)
(* the keys its collector gives it and no other.                               *)

\* The number of calls on the rules engine of the rules specification.
MaxRuleOps == 3

\* processes.suspicious_names of the configuration in the model.
SuspiciousProcessNames == {"malware.exe"}

MaxConnections == 100

IoThresholdMb == 10

\* conditions={} of a rule: a record with no key that is read.
NoConditions == [none |-> NONE]

\* dict.get(k, d)
Get(data, k, d) == IF k \in DOMAIN data THEN data[k] ELSE d

\* Rule(name, rule_type, description, severity, enabled, conditions)
Rule(name, type, severity, enabled, conditions) ==
    [ name |-> name, rule_type |-> type, severity |-> severity, enabled |-> enabled,
      conditions |-> conditions ]

\* _load_default_rules: the built-in rules in the order of the list.
DefaultRules ==
    << Rule("suspicious_process_name", "process", "CRITICAL", TRUE,
            [suspicious_names |-> SuspiciousProcessNames]),
       Rule("suspicious_port_connection", "network", "HIGH", TRUE,
            [suspicious_ports |-> SuspiciousPorts]),
       Rule("high_upload_rate", "network", "HIGH", TRUE,
            [max_mb_per_min |-> MaxUploadMbPerMin]),
       Rule("sensitive_file_access", "file", "MEDIUM", TRUE, NoConditions),
       Rule("untrusted_process", "process", "LOW", FALSE, NoConditions),
       Rule("registry_run_key_modified", "registry", "HIGH", TRUE,
            [key_patterns |-> {"Run", "RunOnce"}]),
       Rule("high_connection_count", "process", "MEDIUM", TRUE,
            [max_connections |-> MaxConnections]),
       Rule("high_io_activity", "process", "MEDIUM", TRUE,
            [threshold_mb |-> IoThresholdMb]) >>

\* _evaluate_process_rule: << details >> for a match, << >> for None.
EvaluateProcessRule(rule, data) ==
    LET process_name == Lower(Get(data, "process_name", ""))
    IN  CASE rule.name = "suspicious_process_name" ->
               IF process_name \in
                      { Lower(n) : n \in Get(rule.conditions, "suspicious_names", {}) }
               THEN << [process_name |-> process_name] >>
               ELSE << >>
          [] rule.name = "untrusted_process" ->
               IF ~Get(data, "is_trusted", TRUE)
               THEN << [process_name |-> process_name, path |-> Get(data, "path", NoPath)] >>
               ELSE << >>
          [] rule.name = "high_connection_count" ->
               IF Get(data, "num_connections", 0)
                      > Get(rule.conditions, "max_connections", 100)
               THEN << [process_name |-> process_name,
                        num_connections |-> Get(data, "num_connections", 0)] >>
               ELSE << >>
          [] rule.name = "high_io_activity" ->
               LET threshold_bytes == Get(rule.conditions, "threshold_mb", 10) * MiB
                   read_delta      == Get(data, "read_bytes_delta", 0)
                   write_delta     == Get(data, "write_bytes_delta", 0)
               IN  IF read_delta > threshold_bytes \/ write_delta > threshold_bytes
                   THEN << [process_name |-> process_name,
                            read_mb |-> RoundMb(read_delta),
                            write_mb |-> RoundMb(write_delta)] >>
                   ELSE << >>
          [] OTHER -> << >>

\* _evaluate_network_rule with the local port where the code reads the remote one.
EvaluateNetworkRuleLocalPort(rule, data) ==
    IF /\ rule.name = "suspicious_port_connection"
       /\ Get(data, "local_port", 0) \in Get(rule.conditions, "suspicious_ports", {})
    THEN << [remote_port |-> Get(data, "local_port", 0),
             remote_address |-> Get(data, "remote_address", 0),
             process_name |-> Get(data, "process_name", NONE)] >>
    ELSE << >>

\* _evaluate_network_rule
EvaluateNetworkRule(rule, data) ==
    CASE rule.name = "suspicious_port_connection" ->
           LET remote_port == Get(data, "remote_port", 0)
           IN  IF remote_port \in Get(rule.conditions, "suspicious_ports", {})
               THEN << [remote_port |-> remote_port,
                        remote_address |-> Get(data, "remote_address", 0),
                        process_name |-> Get(data, "process_name", NONE)] >>
               ELSE << >>
      [] rule.name = "high_upload_rate" ->
           \* mb_uploaded is in hundredths of a MiB, the threshold in MiB.
           LET mb_uploaded == Get(data, "mb_uploaded", 0)
               threshold   == Get(rule.conditions, "max_mb_per_min", 50)
           IN  IF mb_uploaded > threshold * 100
               THEN << [mb_uploaded |-> mb_uploaded, threshold |-> threshold,
                        process_name |-> Get(data, "process_name", NONE)] >>
               ELSE << >>
      [] OTHER -> << >>

\* _evaluate_file_rule
EvaluateFileRule(rule, data) ==
    IF rule.name = "sensitive_file_access" /\ Get(data, "is_sensitive", FALSE)
    THEN << [file_path |-> Get(data, "file_path", NoPath),
             event_type |-> Get(data, "event_type", NONE)] >>
    ELSE << >>

\* _evaluate_registry_rule; a key path is a record [cls, id], cls "run" when the
\* path holds Run or RunOnce.
EvaluateRegistryRule(rule, data) ==
    IF /\ rule.name = "registry_run_key_modified"
       /\ Get(rule.conditions, "key_patterns", {}) # {}
       /\ Get(data, "key_path", NoPath).cls = "run"
    THEN << [key_path |-> Get(data, "key_path", NoPath),
             value_name |-> Get(data, "value_name", NONE),
             change_type |-> Get(data, "change_type", NONE)] >>
    ELSE << >>

\* source_to_type.get(event_source)
SourceToType(source) ==
    CASE source = "process_monitor"  -> "process"
      [] source = "network_monitor"  -> "network"
      [] source = "file_monitor"     -> "file"
      [] source = "registry_monitor" -> "registry"
      [] OTHER                       -> NONE

\* evaluate() looks at every rule, enabled or not.
RuleApplicableAnyFlag(rule, ev) == rule.rule_type = SourceToType(ev.source)

\* The two tests evaluate() makes of a rule before it evaluates it.
RuleApplicable(rule, ev) ==
    /\ rule.enabled
    /\ rule.rule_type = SourceToType(ev.source)

\* The match of one rule that passed the two tests.
EvaluateRule(rule, ev) ==
    CASE rule.rule_type = "process"  -> EvaluateProcessRule(rule, ev.data)
      [] rule.rule_type = "network"  -> EvaluateNetworkRule(rule, ev.data)
      [] rule.rule_type = "file"     -> EvaluateFileRule(rule, ev.data)
      [] rule.rule_type = "registry" -> EvaluateRegistryRule(rule, ev.data)
      [] OTHER                       -> << >>

RECURSIVE EvaluateFrom(_, _, _)
\* The loop of evaluate() from the i-th rule on: the alerts it appends.
EvaluateFrom(rs, i, ev) ==
    IF i > Len(rs) THEN << >>
    ELSE LET match == IF RuleApplicable(rs[i], ev) THEN EvaluateRule(rs[i], ev) ELSE << >>
         IN  (IF match # << >>
              THEN << [ severity |-> rs[i].severity,
                        source   |-> "rules_engine:" \o rs[i].name,
                        details  |-> match[1] ] >>
              ELSE << >>)
             \o EvaluateFrom(rs, i + 1, ev)

RuleCallRecord(op, name, ev, result) ==
    [ op |-> op, name |-> name, event |-> ev, before |-> rules, result |-> result ]

NoRuleEvent == MonitorEvent(NONE, NONE, [none |-> NONE], 0)

NoRuleCall == [ op |-> NONE, name |-> NONE, event |-> NoRuleEvent, before |-> << >>,
                result |-> FALSE ]

\* RulesEngine.evaluate(event)
Evaluate(ev) ==
    /\ ruleOps < MaxRuleOps
    /\ ruleOps' = ruleOps + 1
    /\ ruleAlerts' = EvaluateFrom(rules, 1, ev)
    /\ ruleCall' = RuleCallRecord("evaluate", NONE, ev, TRUE)
    /\ UNCHANGED <<rules, disabledNames, baseVars, notifVars, tailVars>>

\* The index of the first rule of that name, 0 when there is none.
FirstNamed(rs, name) ==
    IF \E i \in 1..Len(rs) : rs[i].name = name
    THEN CHOOSE i \in 1..Len(rs) :
             rs[i].name = name /\ \A j \in 1..(i - 1) : rs[j].name # name
    ELSE 0

\* enable_rule(name) and disable_rule(name)
SetRuleEnabled(op, name, flag) ==
    LET i == FirstNamed(rules, name)
    IN  /\ ruleOps < MaxRuleOps
        /\ ruleOps' = ruleOps + 1
        /\ rules' = IF i = 0 THEN rules ELSE [rules EXCEPT ![i].enabled = flag]
        /\ ruleCall' = RuleCallRecord(op, name, NoRuleEvent, i # 0)
        /\ disabledNames' = IF flag THEN disabledNames \ {name}
                             ELSE IF i # 0 THEN disabledNames \cup {name}
                             ELSE disabledNames
        /\ UNCHANGED <<ruleAlerts, baseVars, notifVars, tailVars>>

EnableRule(name) == SetRuleEnabled("enable_rule", name, TRUE)

DisableRule(name) == SetRuleEnabled("disable_rule", name, FALSE)

\* add_rule(rule)
AddRule(rule) ==
    /\ ruleOps < MaxRuleOps
    /\ ruleOps' = ruleOps + 1
    /\ rules' = Append(rules, rule)
    /\ ruleCall' = RuleCallRecord("add_rule", rule.name, NoRuleEvent, TRUE)
    /\ UNCHANGED <<ruleAlerts, disabledNames, baseVars, notifVars, tailVars>>

\* remove_rule(name)
RemoveRule(name) ==
    LET i == FirstNamed(rules, name)
    IN  /\ ruleOps < MaxRuleOps
        /\ ruleOps' = ruleOps + 1
        /\ rules' = IF i = 0 THEN rules
                    ELSE SubSeq(rules, 1, i - 1) \o SubSeq(rules, i + 1, Len(rules))
        /\ ruleCall' = RuleCallRecord("remove_rule", name, NoRuleEvent, i # 0)
        /\ UNCHANGED <<ruleAlerts, disabledNames, baseVars, notifVars, tailVars>>

\* The events the rules specification evaluates: what the collectors emit.
RuleEvents ==
    { CheckSuspiciousConnection(
          [pid |-> 50, process_name |-> "nc", remote_address |-> 7,
           remote_port |-> 4444, local_port |-> 50000, status |-> "ESTABLISHED"])[1],
      UploadEvents(<< <<0, 0>>, <<30, 60 * MiB>> >>, 50, "nc")[1],
      MonitorEvent("process_monitor", "new_process",
                   [pid |-> 1234, process_name |-> "malware.exe", path |-> NoPath,
                    is_trusted |-> FALSE], 0),
      MonitorEvent("process_monitor", "new_process",
                   [pid |-> 1234, process_name |-> "notepad.exe", path |-> NoPath,
                    is_trusted |-> TRUE], 0),
      MonitorEvent("process_monitor", "many_connections",
                   [pid |-> 1234, process_name |-> "notepad.exe", path |-> NoPath,
                    num_connections |-> 120, is_trusted |-> FALSE], 50),
      MonitorEvent("file_monitor", "file_modified",
                   [file_path |-> [cls |-> "plain", id |-> 1], event_type |-> "modified",
                    is_sensitive |-> TRUE], 30),
      MonitorEvent("registry_monitor", "registry_added",
                   [key_path |-> [cls |-> "run", id |-> 1], value_name |-> "updater",
                    change_type |-> "added"], 80) }

\* The names enable_rule, disable_rule and remove_rule are called with.
RuleNames == {"suspicious_port_connection", "untrusted_process", "no_such_rule"}

\* The rules add_rule is called with.
CustomRules ==
    { Rule("suspicious_port_connection", "network", "LOW", TRUE,
           [suspicious_ports |-> {}]),
      Rule("suspicious_port_connection", "network", "MEDIUM", TRUE,
           [suspicious_ports |-> {4444}]),
      Rule("test_rule", "process", "HIGH", TRUE, NoConditions) }

----------------------------------------------------------------------------
(* The events of the file, registry and network collectors, as the heuristics  *)
(* engine reads them.                                                          *)

\* monitoring.file.sensitive_extensions of the configuration in the model.
SensitiveExtensions == { <<".", "k", "e", "y">>, <<".", "p", "e", "m">>, <<".", "e", "n", "v">> }

\* str.endswith
EndsWith(s, ext) ==
    Len(s) >= Len(ext) /\ SubSeq(s, Len(s) - Len(ext) + 1, Len(s)) = ext

\* LeattFileHandler._is_sensitive_file
IsSensitiveFile(text) ==
    \E ext \in SensitiveExtensions : EndsWith(LowerText(text), LowerText(ext))

\* The paths of the file system events in the model.
WatchedFiles ==
    << UnixDir \o <<"s", "r", "v", ".", "K", "E", "Y">>, WindowsDir \o <<"a", "p", "p", ".", "e", "n", "v">>, UnixDir \o <<"n", "o", "t", "e", "s", ".", "t", "x", "t">> >>

\* LeattFileHandler._create_event(event_type, src_path) for the i-th watched file:
\* the events it puts.
CreateEvent(type, i) ==
    LET is_sensitive == IsSensitiveFile(WatchedFiles[i])
    IN  IF is_sensitive
        THEN << MonitorEvent("file_monitor", "file_" \o type,
                             [file_path |-> [cls |-> PathClass(WatchedFiles[i]), id |-> i],
                              event_type |-> type, is_sensitive |-> is_sensitive], 30) >>
        ELSE << >>

\* RegistryMonitor._report_change(change): the event it puts.
ReportChange(change) ==
    MonitorEvent("registry_monitor", "registry_" \o change.change_type,
                 [key_path |-> change.key_path, value_name |-> change.value_name,
                  old_value |-> change.old_value, new_value |-> change.new_value,
                  change_type |-> change.change_type],
                 IF change.key_path.cls = "run" THEN 80 ELSE 50)

\* The reads analyze() and the _record_ functions make of event.source and event.data.
EventRead(mev) ==
    [ source          |-> mev.source,
      event_type      |-> mev.event_type,
      pid             |-> Get(mev.data, "pid", NoPid),
      process_name    |-> Get(mev.data, "process_name", "unknown"),
      file_path       |-> Get(mev.data, "file_path", NoPath),
      data_event_type |-> Get(mev.data, "event_type", NONE),
      is_sensitive    |-> Get(mev.data, "is_sensitive", FALSE),
      remote_address  |-> Get(mev.data, "remote_address", 0),
      bytes_uploaded  |-> Get(mev.data, "bytes_uploaded", 0),
      key_path        |-> Get(mev.data, "key_path", NoPath),
      change_type     |-> Get(mev.data, "change_type", NONE),
      is_trusted      |-> Get(mev.data, "is_trusted", FALSE) ]

\* What the three collectors emit in the model.
CollectedEvents ==
    UNION { { CreateEvent(type, i)[k] : k \in 1..Len(CreateEvent(type, i)) } :
              type \in {"created", "modified"}, i \in 1..Len(WatchedFiles) }
    \cup { ReportChange([key_path |-> [cls |-> "run", id |-> 1], value_name |-> "updater",
                         old_value |-> NONE, new_value |-> "evil.exe",
                         change_type |-> "added"]),
           CheckSuspiciousConnection(
               [pid |-> 50, process_name |-> "nc", remote_address |-> 7,
                remote_port |-> 4444, local_port |-> 50000, status |-> "ESTABLISHED"])[1],
           UploadEvents(<< <<0, 0>>, <<30, 60 * MiB>> >>, 50, "nc")[1] }

----------------------------------------------------------------------------
(* NotificationManager. notify() runs on the thread of its caller; only the     *)
(* append to the history is under the manager's lock, so every other read and  *)
(* write of a field is a step that another thread's steps can come between.    *)

\* The number of notify() calls of the notification specification.
MaxNotify == 4

\* How far the clock runs in the notification specification.
MaxNotifyTime == 10

RateLimitSeconds == 5

MaxHistory == 100

\* The threads that call notify(): the dispatcher's and the tray's.
NotifyThreads == {"dispatcher", "systray"}

NotifyTickSteps == {4, 5}

NoLocals == [current_time |-> 0, read |-> 0, suffix |-> 0, number |-> 0]

\* The clock between two steps.
NotifyTick(d) ==
    /\ now + d <= EpochNow + MaxNotifyTime
    /\ now' = now + d
    /\ UNCHANGED <<coreVars, webVars, queueVars, netVars, trustVars, procVars, restVars>>

\* Lines 77-90: the enabled test, and the append to the history under the lock.
NotifyBegin(t) ==
    /\ npc[t] = "idle"
    /\ notifyCalls < MaxNotify
    /\ notifyCalls' = notifyCalls + 1
    /\ IF notif_enabled
       THEN /\ history' = LastN(Append(history, notifyCalls + 1), MaxHistory)
            /\ npc' = [npc EXCEPT ![t] = "check"]
            /\ nlocal' = [nlocal EXCEPT ![t] = [NoLocals EXCEPT !.number = notifyCalls + 1]]
       ELSE UNCHANGED <<history, npc, nlocal>>
    /\ UNCHANGED <<notif_enabled, plyer_available, last_notification_time, pending_count,
                   forwarded, suppressedTotal, baseVars, ruleVars, tailVars>>

\* Lines 101-104 and 109: time_since_last < _rate_limit_seconds suppresses.
Admissible(current_time, last) == ~(current_time - last < RateLimitSeconds)

\* Lines 101-109 and 117: the clock is read and compared with the last stamp.
NotifyCheck(t) ==
    /\ npc[t] = "check"
    /\ nlocal' = [nlocal EXCEPT ![t].current_time = now]
    /\ IF ~Admissible(now, last_notification_time)
       THEN /\ npc' = [npc EXCEPT ![t] = "count_read"]
            /\ suppressedTotal' = suppressedTotal + 1
       ELSE /\ npc' = [npc EXCEPT ![t] = IF plyer_available THEN "suffix" ELSE "idle"]
            /\ UNCHANGED suppressedTotal
    /\ UNCHANGED <<notif_enabled, plyer_available, history, last_notification_time,
                   pending_count, forwarded, notifyCalls, baseVars, ruleVars, tailVars>>

\* Line 105, the read of self._pending_count += 1.
NotifyCountRead(t) ==
    /\ npc[t] = "count_read"
    /\ nlocal' = [nlocal EXCEPT ![t].read = pending_count]
    /\ npc' = [npc EXCEPT ![t] = "count_write"]
    /\ UNCHANGED <<notif_enabled, plyer_available, history, last_notification_time,
                   pending_count, forwarded, suppressedTotal, notifyCalls, baseVars,
                   ruleVars, tailVars>>

\* Lines 105-107, the write of self._pending_count += 1, and return False.
NotifyCountWrite(t) ==
    /\ npc[t] = "count_write"
    /\ pending_count' = nlocal[t].read + 1
    /\ npc' = [npc EXCEPT ![t] = "idle"]
    /\ UNCHANGED <<notif_enabled, plyer_available, history, last_notification_time,
                   nlocal, forwarded, suppressedTotal, notifyCalls, baseVars, ruleVars, tailVars>>

\* Lines 110-111: the suffix (+N autres alertes) is built from the pending count.
NotifySuffix(t) ==
    /\ npc[t] = "suffix"
    /\ IF pending_count > 0
       THEN /\ nlocal' = [nlocal EXCEPT ![t].suffix = pending_count]
            /\ npc' = [npc EXCEPT ![t] = "reset"]
       ELSE /\ npc' = [npc EXCEPT ![t] = "stamp"]
            /\ UNCHANGED nlocal
    /\ UNCHANGED <<notif_enabled, plyer_available, history, last_notification_time,
                   pending_count, forwarded, suppressedTotal, notifyCalls, baseVars,
                   ruleVars, tailVars>>

\* Line 112
NotifyReset(t) ==
    /\ npc[t] = "reset"
    /\ pending_count' = 0
    /\ npc' = [npc EXCEPT ![t] = "stamp"]
    /\ UNCHANGED <<notif_enabled, plyer_available, history, last_notification_time,
                   nlocal, forwarded, suppressedTotal, notifyCalls, baseVars, ruleVars, tailVars>>

\* Line 114
NotifyStamp(t) ==
    /\ npc[t] = "stamp"
    /\ last_notification_time' = nlocal[t].current_time
    /\ npc' = [npc EXCEPT ![t] = "show"]
    /\ UNCHANGED <<notif_enabled, plyer_available, history, pending_count, nlocal,
                   forwarded, suppressedTotal, notifyCalls, baseVars, ruleVars, tailVars>>

\* Line 115, _show_plyer_notification: the notification goes to the channel.
NotifyShow(t) ==
    /\ npc[t] = "show"
    /\ forwarded' = Append(forwarded, [ number |-> nlocal[t].number,
                                        time   |-> nlocal[t].current_time,
                                        suffix |-> nlocal[t].suffix ])
    /\ npc' = [npc EXCEPT ![t] = "idle"]
    /\ UNCHANGED <<notif_enabled, plyer_available, history, last_notification_time,
                   pending_count, nlocal, suppressedTotal, notifyCalls, baseVars,
                   ruleVars, tailVars>>

\* enable() and disable()
SetNotificationsEnabled(flag) ==
    /\ notif_enabled # flag
    /\ notif_enabled' = flag
    /\ UNCHANGED <<plyer_available, history, last_notification_time, pending_count,
                   npc, nlocal, forwarded, suppressedTotal, notifyCalls, baseVars,
                   ruleVars, tailVars>>

----------------------------------------------------------------------------
(* MLAnomalyDetector: the lock, the retrain thread and predict()              *)

\* The number of calls the dispatcher makes on the detector.
MaxMlOps == 4

\* config.get("ml.min_samples_for_training", 1000)
MinSamples == 1000

\* update_incremental starts a retrain when the sample count is a multiple of this.
RetrainEvery == 500

\* A model or a scaler: the number of the _create_model() call that made it (the one
\* loaded from disk is number 1) and whether fit() has completed on it.
Estimator(version, fitted) == [version |-> version, fitted |-> fitted]

\* self._model = None, self._scaler = None
NoEstimator == Estimator(0, FALSE)

NoPredictLocals == [during |-> FALSE, model |-> NoEstimator, scaler |-> NoEstimator]

NoPrediction ==
    [ during |-> FALSE, previous_model |-> NoEstimator, previous_scaler |-> NoEstimator,
      model |-> NoEstimator, scaler |-> NoEstimator, result |-> NONE ]

\* __init__ with no model file on disk and no samples yet.
InitDetector ==
    /\ sklearn_available = TRUE
    /\ ml_model = NoEstimator
    /\ ml_scaler = NoEstimator
    /\ is_trained = FALSE
    /\ training_data = << >>
    /\ registry_available = FALSE

\* A call of train(): what it returned ("true", "false", NONE while it runs),
\* whether it ended in the except branch, and the model and the scaler that were in
\* use when it began.
TrainCall(returned, raised, model, scaler) ==
    [ returned |-> returned, raised |-> raised, previous_model |-> model,
      previous_scaler |-> scaler ]

NoTrainCall == TrainCall(NONE, FALSE, NoEstimator, NoEstimator)

\* _extract_features(event): nothing for an event without a pid, else the features.
ExtractFeatures(ev) ==
    IF "pid" \in DOMAIN ev.data
    THEN << [pid |-> ev.data.pid, source |-> ev.source] >>
    ELSE << >>

\* The retrain thread is inside the locked body of train().
RetrainInProgress == ml_lock = "trainer"

\* The number of samples handed to add_training_sample so far: each sample in the
\* ring is the number it had when it was added.
SamplesAdded == IF training_data = << >> THEN 0 ELSE training_data[Len(training_data)]

\* The test of update_incremental on the sample count after the append.
StartsRetrain(n) == n % RetrainEvery = 0 /\ n >= MinSamples

\* The dispatcher calls update_incremental(features) and reaches the lock of
\* add_training_sample.
UpdateIncrementalBegin ==
    /\ dpc = "idle"
    /\ mlOps < MaxMlOps
    /\ mlOps' = mlOps + 1
    /\ dpc' = "add_sample"
    /\ UNCHANGED <<sklearn_available, ml_model, ml_scaler, is_trained, ml_lock, tpc, dlocal,
                   lastPredict, lastTrain, training_data, otherThanMl>>

\* add_training_sample under the lock, then the count test and the thread start.
UpdateIncremental ==
    /\ dpc = "add_sample"
    /\ ml_lock = NONE
    /\ AddTrainingSample(SamplesAdded + 1)
    /\ IF StartsRetrain(Len(training_data'))
       THEN tpc = "none" /\ tpc' = "start"
       ELSE tpc' = tpc
    /\ dpc' = "idle"
    /\ UNCHANGED <<sklearn_available, ml_model, ml_scaler, is_trained, ml_lock, dlocal,
                   lastPredict, lastTrain, mlOps, otherThanMl>>

\* predict(event) up to the call of _predict_score: the unlocked test of _is_trained
\* and the feature extraction.
Predict(ev) ==
    /\ dpc = "idle"
    /\ mlOps < MaxMlOps
    /\ mlOps' = mlOps + 1
    /\ IF ~sklearn_available \/ ~is_trained \/ ExtractFeatures(ev) = << >>
       THEN /\ lastPredict' = [ NoPrediction EXCEPT !.during = RetrainInProgress,
                                  !.result = "zero" ]
            /\ UNCHANGED <<dpc, dlocal>>
       ELSE /\ dpc' = "predict_score"
            /\ dlocal' = [during |-> RetrainInProgress, model |-> ml_model,
                          scaler |-> ml_scaler]
            /\ UNCHANGED lastPredict
    /\ UNCHANGED <<sklearn_available, ml_model, ml_scaler, is_trained, ml_lock, tpc,
                   lastTrain, training_data, otherThanMl>>

\* _predict_score(features): takes the lock, transforms with the scaler and scores
\* with the model that are there then; an estimator that was never fitted raises,
\* and predict() turns the exception into 0.0.
PredictScore ==
    /\ dpc = "predict_score"
    /\ ml_lock = NONE
    /\ lastPredict' = [ during |-> dlocal.during, previous_model |-> dlocal.model,
                        previous_scaler |-> dlocal.scaler, model |-> ml_model,
                        scaler |-> ml_scaler,
                        result |-> IF ml_scaler.fitted /\ ml_model.fitted
                                   THEN "scored" ELSE "zero" ]
    /\ dpc' = "idle"
    /\ dlocal' = NoPredictLocals
    /\ UNCHANGED <<sklearn_available, ml_model, ml_scaler, is_trained, ml_lock, tpc,
                   lastTrain, mlOps, training_data, otherThanMl>>

\* train() on its thread: the availability test, the lock and the sample count tests.
TrainAcquire ==
    /\ tpc = "start"
    /\ IF ~sklearn_available
       THEN tpc' = "none" /\ UNCHANGED ml_lock
       ELSE /\ ml_lock = NONE
            /\ IF Len(training_data) < MinSamples \/ Len(training_data) = 0
               THEN tpc' = "none" /\ UNCHANGED ml_lock
               ELSE tpc' = "locked" /\ ml_lock' = "trainer"
    /\ lastTrain' = TrainCall(IF tpc' = "none" THEN "false" ELSE NONE, FALSE,
                              ml_model, ml_scaler)
    /\ UNCHANGED <<sklearn_available, ml_model, ml_scaler, is_trained, dpc, dlocal,
                   lastPredict, mlOps, training_data, otherThanMl>>

\* _create_model(): a new, unfitted model and scaler replace the ones in use.
TrainCreateModel ==
    /\ tpc = "locked"
    /\ ml_model' = Estimator(ml_model.version + 1, FALSE)
    /\ ml_scaler' = Estimator(ml_model.version + 1, FALSE)
    /\ tpc' = "created"
    /\ UNCHANGED <<sklearn_available, is_trained, ml_lock, dpc, dlocal, lastPredict,
                   lastTrain, mlOps,
                   training_data, otherThanMl>>

\* self._scaler.fit_transform(X); an exception ends train() and releases the lock.
TrainFitScaler(ok) ==
    /\ tpc = "created"
    /\ IF ok
       THEN /\ ml_scaler' = Estimator(ml_scaler.version, TRUE)
            /\ tpc' = "scaled"
            /\ UNCHANGED ml_lock
       ELSE /\ tpc' = "none"
            /\ ml_lock' = NONE
            /\ UNCHANGED ml_scaler
    /\ lastTrain' = IF ok THEN lastTrain
                    ELSE [lastTrain EXCEPT !.returned = "false", !.raised = TRUE]
    /\ UNCHANGED <<sklearn_available, ml_model, is_trained, dpc, dlocal, lastPredict, mlOps,
                   training_data, otherThanMl>>

\* self._model.fit(X_scaled), _is_trained = True, _save_model(), and the release of
\* the lock on return; an exception ends train() and releases the lock.
TrainFitModel(ok) ==
    /\ tpc = "scaled"
    /\ IF ok
       THEN /\ ml_model' = Estimator(ml_model.version, TRUE)
            /\ is_trained' = TRUE
       ELSE UNCHANGED <<ml_model, is_trained>>
    /\ lastTrain' = IF ok THEN [lastTrain EXCEPT !.returned = "true"]
                    ELSE [lastTrain EXCEPT !.returned = "false", !.raised = TRUE]
    /\ tpc' = "none"
    /\ ml_lock' = NONE
    /\ UNCHANGED <<sklearn_available, ml_scaler, dpc, dlocal, lastPredict, mlOps,
                   training_data, otherThanMl>>

\* The events handed to predict(): those of the collectors.
MlEvents == CollectedEvents

----------------------------------------------------------------------------
(* The collector loops and the shared stop flag                                *)

\* The collectors whose start() runs a loop on the shared stop flag.
Loops == Collectors \cup {"registry_monitor"}

NoStopAt == [c \in Loops |-> NONE]

\* The loop of this collector scans on every tick; the file monitor's loop and the
\* registry monitor's loop on a platform without a registry only wait.
HasScan(c) ==
    \/ c \in {"process_monitor", "network_monitor"}
    \/ c = "registry_monitor" /\ registry_available

\* The loop goes on whatever the flag says.
LoopContinuesAnyway(flag) == TRUE

\* while not self.stop_event.is_set()
LoopContinues(flag) == ~flag

\* start() up to its loop: the registry monitor takes its snapshots and the file
\* monitor schedules and starts its observer.
LoopStart(c) ==
    /\ cpc[c] = "init"
    /\ cpc' = [cpc EXCEPT ![c] = "test"]
    /\ observer' = IF c = "file_monitor" THEN "running" ELSE observer
    /\ UNCHANGED <<stop_event, registry_available, stopAt, baseVars, ruleVars, notifVars,
                   mlVars, regVars, fileVars>>

\* The test of the while loop: a tick begins, or the loop is left.
LoopTest(c) ==
    /\ cpc[c] = "test"
    /\ cpc' = [cpc EXCEPT ![c] = IF LoopContinues(stop_event)
                                 THEN IF HasScan(c) THEN "scan" ELSE "wait"
                                 ELSE IF c = "file_monitor" THEN "stopping"
                                      ELSE "returned"]
    /\ UNCHANGED <<stop_event, registry_available, observer, stopAt, baseVars, ruleVars,
                   notifVars, mlVars, regVars, fileVars>>

\* The scan of the tick returns, or raises an Exception that the loop logs.
ScanDone(c) ==
    /\ cpc[c] = "scan"
    /\ cpc' = [cpc EXCEPT ![c] = "wait"]
    /\ UNCHANGED <<stop_event, registry_available, observer, stopAt, baseVars, ruleVars,
                   notifVars, mlVars, regVars, fileVars>>

\* self.stop_event.wait(interval) returns: the flag is set or the interval is over.
WaitReturn(c) ==
    /\ cpc[c] = "wait"
    /\ cpc' = [cpc EXCEPT ![c] = "test"]
    /\ UNCHANGED <<stop_event, registry_available, observer, stopAt, baseVars, ruleVars,
                   notifVars, mlVars, regVars, fileVars>>

\* FileMonitor.stop() at the end of start(): the observer is stopped and joined for
\* at most five seconds.
FileStop ==
    /\ cpc["file_monitor"] = "stopping"
    /\ observer' = "none"
    /\ cpc' = [cpc EXCEPT !["file_monitor"] = "returned"]
    /\ UNCHANGED <<stop_event, registry_available, stopAt, baseVars, ruleVars, notifVars,
                   mlVars, regVars, fileVars>>

\* The shutdown sets the shared flag; stopAt keeps where each loop was then.
SetStop ==
    /\ ~stop_event
    /\ stop_event' = TRUE
    /\ stopAt' = cpc
    /\ UNCHANGED <<cpc, registry_available, observer, baseVars, ruleVars, notifVars,
                   mlVars, regVars, fileVars>>

\* The steps of the thread that runs the start() of collector c, up to the end of
\* its loop.
LoopStep(c) ==
    \/ LoopStart(c)
    \/ LoopTest(c)
    \/ ScanDone(c)
    \/ WaitReturn(c)

----------------------------------------------------------------------------
(* RegistryMonitor on a Windows host.  The registry holds typed values; the    *)
(* monitor keeps of each value the text str(value).  A read of the watched key *)
(* meets the key with some values ("ok"), no key ("missing": OpenKey raises    *)
(* FileNotFoundError) or a key it may not open ("denied": PermissionError).    *)

\* The number of ticks of the registry specification.
MaxRegScans == 3

RegSz(text) == [type |-> "REG_SZ", text |-> text]

RegDword(n) == [type |-> "REG_DWORD", number |-> n]

DecimalDigits == <<"0", "1", "2", "3", "4", "5", "6", "7", "8", "9">>

\* str(value) of a value winreg.EnumValue returned.
Str(v) == IF v.type = "REG_DWORD" THEN DecimalDigits[v.number + 1] ELSE v.text

\* The watched key, a Run key: _get_key_path(hkey, subkey).
RunKey == [cls |-> "run", id |-> 1]

\* The value names of the key, in the order EnumValue lists them.
ValueNames == <<"updater", "helper">>

ReadOutcome(status, values) == [status |-> status, values |-> values]

NoRead == ReadOutcome(NONE, << >>)

\* _read_key_values(hkey, subkey), the monitor being available: the values of a
\* key it could open, each as str(value), and {} for a key that is missing or denied.
ReadKeyValues(outcome) ==
    IF outcome.status = "ok"
    THEN [ name \in DOMAIN outcome.values |-> Str(outcome.values[name]) ]
    ELSE << >>

RegistryChange(key_path, value_name, old_value, new_value, change_type) ==
    [key_path |-> key_path, value_name |-> value_name, old_value |-> old_value,
     new_value |-> new_value, change_type |-> change_type]

\* The names of ValueNames that are in S, in that order.
InOrder(S) == SelectSeq(ValueNames, LAMBDA name : name \in S)

\* _check_changes: the changes it returns for the values read, current_values,
\* against the snapshot, previous_values.
CheckChanges(key_path, previous_values, current_values) ==
    LET cur == InOrder(DOMAIN current_values)
        prev == InOrder(DOMAIN previous_values)
        OfCurrent == [ name \in DOMAIN current_values |->
            IF name \notin DOMAIN previous_values
            THEN << RegistryChange(key_path, name, NONE, current_values[name], "added") >>
            ELSE IF previous_values[name] # current_values[name]
            THEN << RegistryChange(key_path, name, previous_values[name],
                                   current_values[name], "modified") >>
            ELSE << >> ]
        OfPrevious == [ name \in DOMAIN previous_values |->
            IF name \notin DOMAIN current_values
            THEN << RegistryChange(key_path, name, previous_values[name], NONE, "deleted") >>
            ELSE << >> ]
    IN  Concat(cur, OfCurrent) \o Concat(prev, OfPrevious)

\* A monitor that forgot its snapshots.
SnapshotOfNothing(snapshots, key_path) == << >>

\* _key_snapshots.get(key_path, {})
SnapshotOf(snapshots, key_path) ==
    IF key_path \in DOMAIN snapshots THEN snapshots[key_path] ELSE << >>

\* start() up to its loop: _initialize_snapshots reads the watched key.
InitializeSnapshots(outcome) ==
    /\ registry_available
    /\ rpc = "init"
    /\ rpc' = "loop"
    /\ key_snapshots' = Assign(key_snapshots, RunKey, ReadKeyValues(outcome))
    /\ regRead' = outcome
    /\ regPrevRead' = regRead
    /\ UNCHANGED <<regScans, regEmitted, baseVars, ruleVars, notifVars, mlVars, loopVars,
                   fileVars>>

\* One tick of the loop of start(): _scan_registry reads the watched key, reports
\* every change _check_changes returns and keeps the values read as the snapshot.
ScanRegistry(outcome) ==
    LET current_values == ReadKeyValues(outcome)
        previous_values == SnapshotOf(key_snapshots, RunKey)
        changes == CheckChanges(RunKey, previous_values, current_values)
        events == [ i \in 1..Len(changes) |-> ReportChange(changes[i]) ]
    IN  /\ registry_available
        /\ rpc = "loop"
        /\ regScans < MaxRegScans
        /\ regScans' = regScans + 1
        /\ key_snapshots' = Assign(key_snapshots, RunKey, current_values)
        /\ regRead' = outcome
        /\ regPrevRead' = regRead
        /\ regEmitted' = events
        /\ EnqueueAll(events)
        /\ UNCHANGED <<rpc, now, coreVars, webVars, netVars, trustVars, procVars, ruleVars,
                       notifVars, mlVars, loopVars, fileVars>>

\* What the registry holds under the watched key: each name is absent or has one
\* of its values.
RegistryValues ==
    { [ name \in N |-> IF name = "updater" THEN v ELSE RegSz("1") ] :
      N \in SUBSET {"updater", "helper"}, v \in {RegSz("1"), RegSz("2"), RegDword(1)} }

\* What a read of the watched key can meet.
ReadOutcomes ==
    { ReadOutcome("ok", values) : values \in RegistryValues }
        \cup { ReadOutcome("missing", << >>), ReadOutcome("denied", << >>) }

----------------------------------------------------------------------------
(* LeattFileHandler: the callbacks watchdog runs for the events of the watched *)
(* folders.  A file system event has a kind, says whether it is about a        *)
(* directory (the Dir...Event classes) and names its path by its position in   *)
(* WatchedFiles; a move names its destination too.                             *)

\* The number of file system events of the file specification.
MaxFileOps == 2

FileSystemEvent(kind, is_directory, src_path, dest_path) ==
    [kind |-> kind, is_directory |-> is_directory, src_path |-> src_path,
     dest_path |-> dest_path]

NoFileSystemEvent == FileSystemEvent(NONE, FALSE, 0, 0)

\* is_sensitive of a move whose destination is not looked at.
MoveIsSensitiveSourceOnly(src_path, dest_path) ==
    IsSensitiveFile(WatchedFiles[src_path])

\* _create_event: is_sensitive after the test of src_path and, for an event with
\* a destination (dest_path # 0), of dest_path.
MoveIsSensitive(src_path, dest_path) ==
    \/ IsSensitiveFile(WatchedFiles[src_path])
    \/ (dest_path # 0 /\ IsSensitiveFile(WatchedFiles[dest_path]))

\* The path of the i-th watched file as the event data carries it.
FilePath(i) == [cls |-> PathClass(WatchedFiles[i]), id |-> i]

\* _create_event(event_type, src_path, dest_path): the data of the event.
FileEventData(event_type, src_path, dest_path) ==
    IF dest_path # 0
    THEN [file_path |-> FilePath(src_path), event_type |-> event_type,
          is_sensitive |-> MoveIsSensitive(src_path, dest_path),
          dest_path |-> FilePath(dest_path)]
    ELSE [file_path |-> FilePath(src_path), event_type |-> event_type,
          is_sensitive |-> MoveIsSensitive(src_path, dest_path)]

\* _create_event(event_type, src_path, dest_path): the events it puts.
CreateEventWithDest(event_type, src_path, dest_path) ==
    IF MoveIsSensitive(src_path, dest_path)
    THEN << MonitorEvent("file_monitor", "file_" \o event_type,
                         FileEventData(event_type, src_path, dest_path), 30) >>
    ELSE << >>

\* Database.add_file_event(file_path, event_type, is_sensitive)
AddFileEvent(rows, file_path, event_type, is_sensitive) ==
    Append(rows, [file_path |-> file_path, event_type |-> event_type,
                  is_sensitive |-> is_sensitive])

\* A callback of the handler, given the event ev, whose kind is event_type: a
\* directory event is ignored, any other goes to _create_event, which stores a
\* row and puts the event of a sensitive file.
HandleFileSystemEvent(event_type, ev) ==
    /\ fileOps' = fileOps + 1
    /\ fileCall' = ev
    /\ IF ev.is_directory
       THEN /\ fileEmitted' = << >>
            /\ UNCHANGED <<file_event_rows, queueVars>>
       ELSE /\ file_event_rows' =
                   AddFileEvent(file_event_rows, FilePath(ev.src_path), event_type,
                                MoveIsSensitive(ev.src_path, ev.dest_path))
            /\ fileEmitted' = CreateEventWithDest(event_type, ev.src_path, ev.dest_path)
            /\ EnqueueAll(CreateEventWithDest(event_type, ev.src_path, ev.dest_path))
    /\ UNCHANGED <<now, coreVars, webVars, netVars, trustVars, procVars, ruleVars,
                   notifVars, mlVars, loopVars, regVars>>

OnCreated(ev) ==
    /\ fileOps < MaxFileOps
    /\ ev.kind = "created"
    /\ HandleFileSystemEvent("created", ev)

OnModified(ev) ==
    /\ fileOps < MaxFileOps
    /\ ev.kind = "modified"
    /\ HandleFileSystemEvent("modified", ev)

OnMoved(ev) ==
    /\ fileOps < MaxFileOps
    /\ ev.kind = "moved"
    /\ HandleFileSystemEvent("moved", ev)

OnDeleted(ev) ==
    /\ fileOps < MaxFileOps
    /\ ev.kind = "deleted"
    /\ HandleFileSystemEvent("deleted", ev)

\* The events watchdog delivers: a move has a destination, no other event has.
FileSystemEvents ==
    { FileSystemEvent(kind, is_directory, src_path, 0) :
        kind \in {"created", "modified", "deleted"}, is_directory \in BOOLEAN,
        src_path \in 1..Len(WatchedFiles) }
    \cup { FileSystemEvent("moved", is_directory, src_path, dest_path) :
             is_directory \in BOOLEAN, src_path \in 1..Len(WatchedFiles),
             dest_path \in 1..Len(WatchedFiles) }

----------------------------------------------------------------------------

InitCore ==
    /\ now = EpochNow
    /\ process_activities = << >>
    /\ alert_cooldowns = << >>
    /\ alerts = << >>
    /\ alertLog = << >>
    /\ analyzed = 0
    /\ lastEvent = BaseEvent
    /\ lastOnCooldown = {}
    /\ evSeq = 0
    /\ alertStore = << >>
    /\ webCall = NoWebCall
    /\ event_queue = << >>
    /\ queue_dropped = 0
    /\ queueCall = NoQueueCall
    /\ emitted = [c \in Collectors |-> 0]
    /\ delivered = << >>
    /\ process_stats = << >>
    /\ upload_tracking = << >>
    /\ network_event_rows = << >>
    /\ netScans = 0
    /\ netPrev = [t |-> 0, io |-> << >>]
    /\ netCur = [t |-> 0, io |-> << >>]
    /\ netEmitted = << >>
    /\ cache = {}
    /\ trustedSeen = {}
    /\ trustCall = NoTrustCall
    /\ trustOps = 0
    /\ known_processes = << >>
    /\ pid_fingerprints = << >>
    /\ previous_io = << >>
    /\ process_records = << >>
    /\ procScans = 0
    /\ procPrev = << >>
    /\ procCur = << >>
    /\ procEmitted = << >>
    /\ procFailed = NoPid
    /\ rules = DefaultRules
    /\ ruleAlerts = << >>
    /\ ruleCall = NoRuleCall
    /\ ruleOps = 0
    /\ disabledNames = {}
    /\ notif_enabled = TRUE
    /\ history = << >>
    /\ last_notification_time = 0
    /\ pending_count = 0
    /\ npc = [t \in NotifyThreads |-> "idle"]
    /\ nlocal = [t \in NotifyThreads |-> NoLocals]
    /\ forwarded = << >>
    /\ suppressedTotal = 0
    /\ notifyCalls = 0
    /\ ml_lock = NONE
    /\ tpc = "none"
    /\ dpc = "idle"
    /\ dlocal = NoPredictLocals
    /\ lastPredict = NoPrediction
    /\ lastTrain = NoTrainCall
    /\ mlOps = 0
    /\ stop_event = FALSE
    /\ observer = "none"
    /\ cpc = [c \in Loops |-> "init"]
    /\ stopAt = NoStopAt
    /\ key_snapshots = << >>
    /\ rpc = "init"
    /\ regScans = 0
    /\ regRead = NoRead
    /\ regPrevRead = NoRead
    /\ regEmitted = << >>
    /\ file_event_rows = << >>
    /\ fileCall = NoFileSystemEvent
    /\ fileEmitted = << >>
    /\ fileOps = 0

\* A fresh installation: nothing is trusted but the built-in names and paths.
Init == InitCore /\ InitDetector /\ feed = NONE /\ trust_db = << >> /\ plyer_available = TRUE

InitBuf ==
    InitCore /\ InitDetector /\ feed \in FeedSources /\ trust_db = << >> /\ plyer_available = TRUE

\* The process collector starts on a store that holds a trust entry or none.
InitProc ==
    /\ InitCore
    /\ InitDetector
    /\ feed = NONE
    /\ trust_db \in { << >>, DbAddTrustedProcess(<< >>, "App", NoPath, NONE) }
    /\ plyer_available = TRUE

\* The notification manager starts with plyer importable or not.
InitNotify ==
    /\ InitCore
    /\ InitDetector
    /\ feed = NONE
    /\ trust_db = << >>
    /\ plyer_available \in BOOLEAN

\* The detector after a long run: scikit-learn importable or not, a model loaded from
\* disk or none, and the sample count one or two short of the retrain threshold.
InitMl ==
    /\ InitCore
    /\ feed = NONE
    /\ trust_db = << >>
    /\ plyer_available = TRUE
    /\ sklearn_available \in BOOLEAN
    /\ \E loaded \in BOOLEAN :
           /\ is_trained = (sklearn_available /\ loaded)
           /\ ml_model = IF is_trained THEN Estimator(1, TRUE) ELSE NoEstimator
           /\ ml_scaler = ml_model
    /\ \E short \in 1..2 : training_data = [i \in 1..(MinSamples - short) |-> i]
    /\ registry_available = FALSE

\* The detector after a longer run: a model loaded from disk and the training ring
\* one sample short of its capacity.
InitMlFull ==
    /\ InitCore
    /\ feed = NONE
    /\ trust_db = << >>
    /\ plyer_available = TRUE
    /\ sklearn_available = TRUE
    /\ is_trained = TRUE
    /\ ml_model = Estimator(1, TRUE)
    /\ ml_scaler = Estimator(1, TRUE)
    /\ training_data = [i \in 1..(TrainingMaxLen - 1) |-> i]
    /\ registry_available = FALSE

\* The collectors before their threads run start(), on a platform with a registry
\* or without one.
InitLoops ==
    /\ InitCore
    /\ feed = NONE
    /\ trust_db = << >>
    /\ plyer_available = TRUE
    /\ sklearn_available = TRUE
    /\ ml_model = NoEstimator
    /\ ml_scaler = NoEstimator
    /\ is_trained = FALSE
    /\ training_data = << >>
    /\ registry_available \in BOOLEAN

\* The registry monitor on a Windows host, before its thread runs start().
InitRegistry ==
    /\ InitCore
    /\ feed = NONE
    /\ trust_db = << >>
    /\ plyer_available = TRUE
    /\ sklearn_available = TRUE
    /\ ml_model = NoEstimator
    /\ ml_scaler = NoEstimator
    /\ is_trained = FALSE
    /\ training_data = << >>
    /\ registry_available = TRUE

NextHeur ==
    \/ \E ev \in HeurEvents : AnalyzeEvent(ev)
    \/ \E d \in HeurTickSteps : Tick(d)

SpecHeur == Init /\ [][NextHeur]_vars

NextCred ==
    \/ \E pid \in HeurPids \cup {NoPid} :
          \E i \in 1..Len(CredSamples) : AnalyzeEvent(CredFileEvent(pid, i))
    \/ \E d \in HeurTickSteps : Tick(d)

SpecCred == Init /\ [][NextCred]_vars

NextSteady ==
    \/ \E ev \in SteadyEvents : AnalyzeSteadyEvent(ev)
    \/ \E d \in HeurTickSteps : Tick(d)

SpecSteady == Init /\ [][NextSteady]_vars

NextMissingKey ==
    \/ \E ev \in MissingKeyEvents : AnalyzeEvent(ev)
    \/ \E d \in HeurTickSteps : Tick(d)

SpecMissingKey == Init /\ [][NextMissingKey]_vars

NextBuf == AnalyzeFeed \/ TrainFeed

SpecBuf == InitBuf /\ [][NextBuf]_vars

NextWeb ==
    \/ \E sev \in AlertSeverities : AddAlert(sev)
    \/ \E alert_id \in 1..(MaxAlerts + 1) : AcknowledgeAlert(alert_id)

SpecWeb == Init /\ [][NextWeb]_vars

NextQueue ==
    \/ \E c \in Collectors : Emit(c)
    \/ Deliver

SpecQueue == Init /\ [][NextQueue]_vars

NextNet ==
    \E d \in NetIntervals, conns \in NetConns, io \in NetIo : ScanNetwork(d, conns, io)

SpecNet == Init /\ [][NextNet]_vars

\* Byte counters whose differences put a window just above the upload threshold
\* (one byte above it) and well above it.
NetSentFine == {0, 10 * MiB, (10 + MaxUploadMbPerMin) * MiB + 1, 120 * MiB}

NetIoFine ==
    UNION { [ P -> [bytes_sent : NetSentFine, process_name : {"uploader"}] ] :
            P \in SUBSET NetPids }

NextNetRate ==
    \E d \in NetIntervals, io \in NetIoFine : ScanNetwork(d, << >>, io)

SpecNetRate == Init /\ [][NextNetRate]_vars

NextTrust ==
    \/ \E q \in TrustQueries : IsTrusted(q[1], q[2], q[3])
    \/ \E q \in TrustAdds : Add(q[1], q[2], q[3])
    \/ \E q \in TrustRemoves : Remove(q[1], q[2])
    \/ ClearCache

SpecTrust == Init /\ [][NextTrust]_vars

NextProc ==
    \E snapshot \in ProcSnapshots : ScanProcesses(snapshot)

SpecProc == InitProc /\ [][NextProc]_vars

NextProcLoad ==
    \E snapshot \in LoadSnapshots : ScanProcesses(snapshot)

SpecProcLoad == InitProc /\ [][NextProcLoad]_vars

NextProcStoreError ==
    \/ \E snapshot \in StoreErrorSnapshots : ScanProcesses(snapshot)
    \/ \E snapshot \in StoreErrorSnapshots :
           \E pid \in DOMAIN snapshot : ScanProcessesStoreError(snapshot, pid)

SpecProcStoreError == InitProc /\ [][NextProcStoreError]_vars

NextDashboardTrust ==
    \/ \E snapshot \in DashboardSnapshots : ScanProcesses(snapshot)
    \/ \E name \in DashboardNames : AddToWhitelist(name, NoPath)
    \/ \E name \in DashboardNames : RemoveFromWhitelist(name)

SpecDashboardTrust == InitProc /\ [][NextDashboardTrust]_vars

NextPipe ==
    \/ \E mev \in CollectedEvents : AnalyzeEvent(EventRead(mev))
    \/ \E d \in HeurTickSteps : Tick(d)

SpecPipe == Init /\ [][NextPipe]_vars

NextNotify ==
    \/ \E t \in NotifyThreads :
          \/ NotifyBegin(t)
          \/ NotifyCheck(t)
          \/ NotifyCountRead(t)
          \/ NotifyCountWrite(t)
          \/ NotifySuffix(t)
          \/ NotifyReset(t)
          \/ NotifyStamp(t)
          \/ NotifyShow(t)
    \/ \E flag \in BOOLEAN : SetNotificationsEnabled(flag)
    \/ \E d \in NotifyTickSteps : NotifyTick(d)

SpecNotify == InitNotify /\ [][NextNotify]_vars

NextMl ==
    \/ UpdateIncrementalBegin
    \/ UpdateIncremental
    \/ \E ev \in MlEvents : Predict(ev)
    \/ PredictScore
    \/ TrainAcquire
    \/ TrainCreateModel
    \/ \E ok \in BOOLEAN : TrainFitScaler(ok)
    \/ \E ok \in BOOLEAN : TrainFitModel(ok)

SpecMl == InitMl /\ [][NextMl]_vars

SpecMlFull == InitMlFull /\ [][NextMl]_vars

NextLoops ==
    \/ SetStop
    \/ \E c \in Loops : LoopStart(c)
    \/ \E c \in Loops : LoopTest(c)
    \/ \E c \in Loops : ScanDone(c)
    \/ \E c \in Loops : WaitReturn(c)
    \/ FileStop

SpecLoops == InitLoops /\ [][NextLoops]_vars

\* Every collector thread is scheduled again and again; a scan and a wait return.
SpecLoopsFair ==
    /\ SpecLoops
    /\ \A c \in Loops : WF_vars(LoopStep(c))
    /\ WF_vars(FileStop)

NextFile ==
    \/ \E ev \in FileSystemEvents : OnCreated(ev)
    \/ \E ev \in FileSystemEvents : OnModified(ev)
    \/ \E ev \in FileSystemEvents : OnMoved(ev)
    \/ \E ev \in FileSystemEvents : OnDeleted(ev)

SpecFile == Init /\ [][NextFile]_vars

NextRegistry ==
    \/ \E outcome \in ReadOutcomes : InitializeSnapshots(outcome)
    \/ \E outcome \in ReadOutcomes : ScanRegistry(outcome)

SpecRegistry == InitRegistry /\ [][NextRegistry]_vars

NextRules ==
    \/ \E ev \in RuleEvents : Evaluate(ev)
    \/ \E name \in RuleNames : EnableRule(name)
    \/ \E name \in RuleNames : DisableRule(name)
    \/ \E rule \in CustomRules : AddRule(rule)
    \/ \E name \in RuleNames : RemoveRule(name)

SpecRules == Init /\ [][NextRules]_vars

----------------------------------------------------------------------------
(* Claims on the heuristics engine *)

\* C1: for every pattern and pid, two alerts heuristics:<pattern> raised for that pid
\* are at least 60 seconds apart on the engine's clock.
C1_CooldownGap ==
    \A k \in DOMAIN alertLog :
        \A i \in 1..(Len(alertLog[k]) - 1) :
            alertLog[k][i + 1] - alertLog[k][i] >= 60

\* A pattern has fired twice for one pid, after its activity was evicted in between
\* or not.
C1_Witness ==
    \E k \in DOMAIN alertLog : Len(alertLog[k]) >= 2

\* The severity law on a risk and the severity given to it.
SeverityLaw(r, s) ==
    /\ s \in {"CRITICAL", "HIGH", "MEDIUM", "LOW"}
    /\ (s = "CRITICAL") <=> (r >= 90)
    /\ (s = "HIGH")     <=> (70 <= r /\ r < 90)
    /\ (s = "MEDIUM")   <=> (50 <= r /\ r < 70)
    /\ (s = "LOW")      <=> (r < 50)

\* C7: every alert analyze() returns for a matched pattern of risk r is CRITICAL iff
\* r >= 90, HIGH iff 70 <= r < 90, MEDIUM iff 50 <= r < 70, LOW iff r < 50; and the
\* ladder analyze() applies obeys that law on every risk from 0 to 100.
C7_SeverityLaw ==
    /\ \A i \in 1..Len(alerts) :
          SeverityLaw(PatternRisk(alerts[i].source[2]), alerts[i].severity)
    /\ \A r \in 0..100 : SeverityLaw(r, SeverityOf(r))

\* One analyze() call returned a CRITICAL and a HIGH alert.
C7_Witness ==
    \E i, j \in 1..Len(alerts) :
        alerts[i].severity = "CRITICAL" /\ alerts[j].severity = "HIGH"

\* The last call analyzed an anomaly event of a trusted process while
\* trusted_process_anomaly was not on cooldown for its pid.
TrustedAnomalyCase ==
    /\ analyzed > 0
    /\ lastEvent.pid # NoPid
    /\ lastEvent.event_type \in {"anomaly_trusted", "high_io", "many_connections",
                                 "high_upload"}
    /\ lastEvent.is_trusted
    /\ "trusted_process_anomaly" \notin lastOnCooldown

\* C10: analyzing an anomaly_trusted, high_io, many_connections or high_upload event
\* with is_trusted = true, trusted_process_anomaly not on cooldown for the pid,
\* returns an alert heuristics:trusted_process_anomaly of severity HIGH.
C10_TrustedAnomalyAlert ==
    TrustedAnomalyCase =>
        \E i \in 1..Len(alerts) :
            /\ alerts[i].source = <<"heuristics", "trusted_process_anomaly">>
            /\ alerts[i].severity = "HIGH"

\* The last call analyzed a pid_hijack or process_mutation event for a pid while
\* pid_hijack_attempt was not on cooldown for that pid.
PidHijackCase ==
    /\ analyzed > 0
    /\ lastEvent.pid # NoPid
    /\ lastEvent.event_type \in {"pid_hijack", "process_mutation"}
    /\ "pid_hijack_attempt" \notin lastOnCooldown

\* C11: analyzing a pid_hijack or process_mutation event for a pid for which
\* pid_hijack_attempt is not on cooldown returns an alert
\* heuristics:pid_hijack_attempt of severity CRITICAL (risk 95).
C11_PidHijackAttemptAlert ==
    PidHijackCase =>
        \E i \in 1..Len(alerts) :
            /\ alerts[i].source = <<"heuristics", "pid_hijack_attempt">>
            /\ alerts[i].severity = "CRITICAL"

\* The last call analyzed a file event that carries a pid and whose path was written
\* with a credential pattern in it, in some casing, while credential_theft was not
\* on cooldown for the pid.
CredentialPathCase ==
    /\ analyzed > 0
    /\ lastEvent.source = "file_monitor"
    /\ lastEvent.pid # NoPid
    /\ lastEvent.file_path.id \in 1..Len(CredSamples)
    /\ CredSamples[lastEvent.file_path.id].pattern # 0
    /\ "credential_theft" \notin lastOnCooldown

BufferOf(a, source) ==
    CASE source = "file_monitor"     -> a.file_accesses
      [] source = "network_monitor"  -> a.network_events
      [] source = "registry_monitor" -> a.registry_events

\* The call of this step left one more entry, stamped with the time of the call, in
\* the matching buffer of a process activity, or recorded in an activity that the
\* cleanup at the end of the call dropped.
RecordedOneEntry ==
    LET source == lastEvent'.source
    IN  \/ \E pid \in DOMAIN process_activities' :
              LET buf == BufferOf(process_activities'[pid], source)
                  was == IF pid \in DOMAIN process_activities
                         THEN Len(BufferOf(process_activities[pid], source))
                         ELSE 0
              IN  /\ Len(buf) = was + 1
                  /\ buf[Len(buf)].timestamp = now
        \/ /\ lastEvent'.pid \in DOMAIN process_activities
           /\ lastEvent'.pid \notin DOMAIN process_activities'

\* C15: for every file, network or registry event that a collector emits and the
\* engine analyzes, the call appends exactly one entry to the matching buffer of a
\* process activity.
C15_CollectedEventRecorded ==
    [][ (/\ analyzed' = analyzed + 1
         /\ lastEvent'.source \in {"file_monitor", "network_monitor", "registry_monitor"})
            => RecordedOneEntry ]_vars

\* The indexes of the staging_behavior alerts in a list of alerts.
StagingAlerts(as) ==
    { i \in 1..Len(as) : as[i].source = <<"heuristics", "staging_behavior">> }

\* The indexes of the created or modified file accesses under a temp path that an
\* activity holds.
TempWrites(a) ==
    { i \in 1..Len(a.file_accesses) :
        /\ a.file_accesses[i].type \in {"created", "modified"}
        /\ a.file_accesses[i].path.cls = "temp" }

\* This step is an analyze() call on a network event with bytes_uploaded > 0 for a
\* pid whose activity holds a temp write, analyzed by an earlier call.
UploadAfterTempWrite ==
    /\ analyzed' = analyzed + 1
    /\ lastEvent'.source = "network_monitor"
    /\ lastEvent'.bytes_uploaded > 0
    /\ lastEvent'.pid \in DOMAIN process_activities
    /\ TempWrites(process_activities[lastEvent'.pid]) # {}

\* The call of this step returns exactly one staging_behavior alert, of severity HIGH.
ReturnsOneStagingAlert ==
    /\ Cardinality(StagingAlerts(alerts')) = 1
    /\ \A i \in StagingAlerts(alerts') : alerts'[i].severity = "HIGH"

\* A staging_behavior alert returned by the call of this step comes 60 s or more
\* after every earlier staging_behavior alert for the same pid.
NoStagingAlertWithin60 ==
    (analyzed' = analyzed + 1 /\ StagingAlerts(alerts') # {}) =>
        LET k == <<"staging_behavior", lastEvent'.pid>>
        IN  k \in DOMAIN alertLog =>
                \A i \in 1..Len(alertLog[k]) : now - alertLog[k][i] >= 60

UploadStrictlyLaterOffCooldown ==
    LET pid == lastEvent'.pid
        a   == process_activities[pid]
        k   == <<"staging_behavior", pid>>
    IN  /\ UploadAfterTempWrite
        /\ \A i \in TempWrites(a) : a.file_accesses[i].timestamp < now
        /\ k \in DOMAIN alertLog =>
               \A i \in 1..Len(alertLog[k]) : now - alertLog[k][i] >= 60

----------------------------------------------------------------------------
(* Claims on the bounded buffers *)

\* The entries of a buffer are the last Len(buf) events of the run, oldest first.
IsLatest(ids, total) ==
    \A i \in 1..Len(ids) : ids[i] = total - Len(ids) + i

\* C5: every ProcessActivity holds at most 100 file accesses, 100 network events and
\* 50 registry events, the oldest entries being the ones dropped, and the training
\* ring holds at most 10000 samples.
C5_BoundedBuffers ==
    /\ \A pid \in DOMAIN process_activities :
          LET a == process_activities[pid]
          IN  /\ Len(a.file_accesses) <= 100
              /\ Len(a.network_events) <= 100
              /\ Len(a.registry_events) <= 50
              /\ IsLatest([ i \in 1..Len(a.file_accesses) |-> a.file_accesses[i].path.id ],
                          evSeq)
              /\ IsLatest([ i \in 1..Len(a.network_events) |->
                              a.network_events[i].remote_address ], evSeq)
              /\ IsLatest([ i \in 1..Len(a.registry_events) |->
                              a.registry_events[i].key_path.id ], evSeq)
    /\ Len(training_data) <= 10000
    /\ IsLatest(training_data, evSeq)

\* A buffer was full when a further event arrived.
C5_Witness ==
    \/ evSeq > 10000 /\ Len(training_data) = 10000
    \/ \E pid \in DOMAIN process_activities :
          \/ evSeq > 100 /\ Len(process_activities[pid].file_accesses) = 100
          \/ evSeq > 100 /\ Len(process_activities[pid].network_events) = 100
          \/ evSeq > 50 /\ Len(process_activities[pid].registry_events) = 50

----------------------------------------------------------------------------
(* Claims on the dashboard *)

\* The last request acknowledged an alert that exists and was acknowledged already.
AckAgainCase ==
    /\ webCall.route = "acknowledge"
    /\ webCall.alert_id \in DOMAIN webCall.before
    /\ webCall.before[webCall.alert_id].acknowledged

\* C8: acknowledging an existing alert that is already acknowledged answers success
\* and leaves every row of the store as it was; acknowledging any existing alert twice
\* leaves the store acknowledging it once leaves, and the second request succeeds.
C8_IdempotentAck ==
    /\ AckAgainCase => (webCall.response.success /\ alertStore = webCall.before)
    /\ \A id \in DOMAIN alertStore :
          /\ AcknowledgeStore(AcknowledgeStore(alertStore, id), id)
               = AcknowledgeStore(alertStore, id)
          /\ AcknowledgeResponse(AcknowledgeStore(alertStore, id), id).success

\* An acknowledged alert was acknowledged again while another alert was not.
C8_Witness ==
    /\ AckAgainCase
    /\ \E id \in DOMAIN alertStore : ~alertStore[id].acknowledged

----------------------------------------------------------------------------
(* Claims on the event queue *)

\* The events of collector c in the sequence evs, in order.
EventsOf(evs, c) == SelectSeq(evs, LAMBDA e : e.source = c)

\* C3: for each collector, the events delivered to the detection stack are in the
\* order the collector enqueued them: their numbers increase, whatever the
\* interleaving with the other collectors and whatever the queue evicted.
C3_FifoPerCollector ==
    \A c \in Collectors :
        LET d == EventsOf(delivered, c)
        IN  /\ \A i \in 1..Len(d) : d[i].seq \in 1..emitted[c]
            /\ \A i \in 1..(Len(d) - 1) : d[i].seq < d[i + 1].seq

\* Two collectors have each had two events delivered, interleaved.
C3_Witness ==
    /\ Len(delivered) >= 4
    /\ \E c1, c2 \in Collectors :
          /\ c1 # c2
          /\ Len(EventsOf(delivered, c1)) >= 2
          /\ Len(EventsOf(delivered, c2)) >= 2
          /\ delivered[1].source # delivered[2].source

\* The last queue operation was a put on a full queue.
PutOnFullCase ==
    queueCall.op = "put" /\ Len(queueCall.before) = QueueCapacity

----------------------------------------------------------------------------
(* Claims on the network collector *)

\* The high_upload events the last network scan enqueued for pid.
HighUploadEvents(pid) ==
    SelectSeq(netEmitted, LAMBDA e : e.event_type = "high_upload" /\ e.data.pid = pid)

\* The last two scans saw pid less than 60 s apart, with no bytes sent at the first
\* and more than the threshold at the second.
UploadBurstCase(pid) ==
    /\ netScans >= 2
    /\ pid \in DOMAIN netPrev.io /\ pid \in DOMAIN netCur.io
    /\ netCur.t - netPrev.t < 60
    /\ netPrev.io[pid].bytes_sent = 0
    /\ netCur.io[pid].bytes_sent > MaxUploadMbPerMin * MiB

\* C9: when two successive scans less than 60 s apart see a pid with 0 bytes sent and
\* then more than max_upload_mb_per_min MiB sent, the second scan enqueues a
\* high_upload event for the pid whose bytes_uploaded is the difference of the two.
C9_HighUploadOnSecondTick ==
    \A pid \in NetPids :
        UploadBurstCase(pid) =>
            \E i \in 1..Len(HighUploadEvents(pid)) :
                HighUploadEvents(pid)[i].data.bytes_uploaded
                    = netCur.io[pid].bytes_sent - netPrev.io[pid].bytes_sent

----------------------------------------------------------------------------
(* Claims on the whitelist *)

\* The identifiers q are those of s, plus possibly a path or a hash s had not.
Extends(q, s) ==
    /\ q[1] = s[1]
    /\ s[2] = NoPath \/ q[2] = s[2]
    /\ s[3] = NONE \/ q[3] = s[3]

\* C6: once is_trusted has answered true for some identifiers, every later is_trusted
\* call with the same identifiers, plus possibly a path or a hash that was absent,
\* answers true as long as remove is not called, whatever add and clear_cache calls
\* are made in between.
C6_TrustMonotonic ==
    trustCall.op = "is_trusted" =>
        \A s \in trustedSeen :
            Extends(<<trustCall.name, trustCall.path, trustCall.hash>>, s)
                => trustCall.result

----------------------------------------------------------------------------
(* Claims on the process collector *)

\* The pid_hijack events the last process scan enqueued for pid.
HijackEvents(pid) ==
    SelectSeq(procEmitted, LAMBDA e : e.event_type = "pid_hijack" /\ e.data.pid = pid)

\* The last two scans both saw pid, with different create times.
PidReusedCase(pid) ==
    /\ pid \in DOMAIN procPrev /\ pid \in DOMAIN procCur
    /\ procCur[pid].create_time # procPrev[pid].create_time

\* C2: when two consecutive scans see a pid with different create times, the second
\* scan enqueues exactly one pid_hijack event for it, carrying the name and path the
\* pid had at the first; when they see it with the same create time, as in every scan
\* after the transition, the second enqueues no pid_hijack event for it.
C2_PidHijackOnce ==
    \A pid \in DOMAIN procPrev \cap DOMAIN procCur :
        IF PidReusedCase(pid)
        THEN /\ Len(HijackEvents(pid)) = 1
             /\ HijackEvents(pid)[1].data.old_name = procPrev[pid].name
             /\ HijackEvents(pid)[1].data.old_path = procPrev[pid].path
        ELSE HijackEvents(pid) = << >>

\* A pid came back under the same name with another create time, and the scan
\* enqueued its pid_hijack event.
C2_Witness ==
    \E pid \in ProcPids :
        /\ PidReusedCase(pid)
        /\ procCur[pid].name = procPrev[pid].name
        /\ Len(HijackEvents(pid)) = 1

----------------------------------------------------------------------------
(* Claims on the rules engine *)

\* The last call evaluated a suspicious_port event.
SuspiciousPortCase ==
    /\ ruleCall.op = "evaluate"
    /\ ruleCall.event.source = "network_monitor"
    /\ ruleCall.event.event_type = "suspicious_port"

\* An alert of severity HIGH with that source tag, whose details hold the remote port
\* of the event, is among the alerts returned.
ReturnedPortAlert(tag) ==
    \E i \in 1..Len(ruleAlerts) :
        /\ ruleAlerts[i].source = tag
        /\ ruleAlerts[i].severity = "HIGH"
        /\ Get(ruleAlerts[i].details, "remote_port", 0) = ruleCall.event.data.remote_port

C20_OnlyEnabledRulesOfScope ==
    ruleCall.op = "evaluate" =>
        /\ rules = ruleCall.before
        /\ \A i \in 1..Len(ruleAlerts) :
               \E j \in 1..Len(rules) :
                   /\ ruleAlerts[i].source = "rules_engine:" \o rules[j].name
                   /\ ruleAlerts[i].severity = rules[j].severity
                   /\ rules[j].enabled
                   /\ rules[j].rule_type = SourceToType(ruleCall.event.source)

\* An event was evaluated that a disabled rule of its scope matches and that a rule
\* of another scope is in the list for: alerts were returned, none of them theirs.
C20_Witness ==
    /\ ruleCall.op = "evaluate"
    /\ ruleAlerts # << >>
    /\ \E j \in 1..Len(rules) :
           /\ ~rules[j].enabled
           /\ rules[j].rule_type = SourceToType(ruleCall.event.source)
           /\ EvaluateRule(rules[j], ruleCall.event) # << >>
    /\ \E j \in 1..Len(rules) :
           rules[j].enabled /\ rules[j].rule_type # SourceToType(ruleCall.event.source)

\* An alert of the last evaluate() call carries the tag of a rule named n.
AlertFromRuleNamed(n) ==
    \E i \in 1..Len(ruleAlerts) : ruleAlerts[i].source = "rules_engine:" \o n

\* C21: after disable_rule(n) answered true and until enable_rule(n) is called,
\* evaluate returns no alert from any rule named n, whatever add_rule, remove_rule,
\* enable_rule and disable_rule calls were made; and right after enable_rule(n)
\* answered true, an event that the first rule named n matches is answered with an
\* alert of that name.
C21_DisabledNameNoAlert ==
    /\ [](ruleCall.op = "evaluate" => \A n \in disabledNames : ~AlertFromRuleNamed(n))
    /\ [][\A n \in RuleNames :
              /\ ruleCall.op = "enable_rule"
              /\ ruleCall.name = n
              /\ ruleCall.result
              /\ ruleCall'.op = "evaluate"
              /\ rules[FirstNamed(rules, n)].rule_type = SourceToType(ruleCall'.event.source)
              /\ EvaluateRule(rules[FirstNamed(rules, n)], ruleCall'.event) # << >>
              => AlertFromRuleNamed(n)']_vars

----------------------------------------------------------------------------
(* Claims on the process collector: terminated processes, failures, I/O deltas *)

\* The PIDs of the scan before the last one that the last scan did not see.
TerminatedPids == DOMAIN procPrev \ DOMAIN procCur

\* C23: after a scan in which a PID of the scan before is absent, the collector
\* holds no state for that PID (no known-process entry, no fingerprint, no I/O
\* sample) and the scan emitted no event about it.
C23_TerminatedPidDropped ==
    \A pid \in TerminatedPids :
        /\ pid \notin DOMAIN known_processes
        /\ pid \notin DOMAIN pid_fingerprints
        /\ pid \notin DOMAIN previous_io
        /\ \A i \in 1..Len(procEmitted) : procEmitted[i].data.pid # pid

\* The read or the write counter of this PID grew by more than limit between the
\* last two scans.
GrewBy(pid, limit) ==
    /\ pid \in DOMAIN procPrev
    /\ pid \in DOMAIN procCur
    /\ \/ procCur[pid].read_bytes - procPrev[pid].read_bytes > limit
       \/ procCur[pid].write_bytes - procPrev[pid].write_bytes > limit

\* C25: a scan emits high_io (untrusted process) or anomaly_trusted (trusted
\* process) for a PID only if the read or the write counter of that process grew by
\* more than 10 MiB (untrusted) or 100 MiB (trusted) since the collector's sample of
\* it in the scan before, also when that scan was the one that discovered the
\* process or reported a pid_hijack on the PID.
C25_HighIoOnlyOnGrowth ==
    \A i \in 1..Len(procEmitted) :
        /\ procEmitted[i].event_type = "high_io"
               => GrewBy(procEmitted[i].data.pid, 10 * MiB)
        /\ procEmitted[i].event_type = "anomaly_trusted"
               => GrewBy(procEmitted[i].data.pid, 100 * MiB)

\* C24: when handling one process in a scan raises (here: the store write of its
\* ProcessRecord fails), the error is swallowed and the scan goes on: every other
\* process of the snapshot is classified in that tick (it is a known process with the
\* identity the snapshot reports) and the PIDs absent from the snapshot are dropped
\* from the known processes.
C24_PerProcessErrorSwallowed ==
    procFailed # NoPid =>
        /\ \A pid \in DOMAIN procCur \ {procFailed} :
               /\ pid \in DOMAIN known_processes
               /\ known_processes[pid].name = procCur[pid].name
        /\ \A pid \in TerminatedPids : pid \notin DOMAIN known_processes

(* Claims on the process collector: new processes, risk score, mutation *)

\* The new_process events the last process scan enqueued for pid.
NewProcessEvents(pid) ==
    SelectSeq(procEmitted, LAMBDA e : e.event_type = "new_process" /\ e.data.pid = pid)

\* The PIDs that arrived with the last scan.
ArrivedPids == DOMAIN procCur \ DOMAIN procPrev

\* C34: for a PID that arrives with a scan, the scan enqueues a new_process event
\* if and only if the process is not trusted and the time since its create_time
\* is below 60 s; in every case its fingerprint is set and its ProcessRecord
\* is upserted.
C34_NewProcessEvent ==
    procFailed = NoPid =>
    \A pid \in ArrivedPids :
        /\ pid \in DOMAIN known_processes
        /\ pid_fingerprints[pid]
               = <<procCur[pid].name, procCur[pid].path, procCur[pid].create_time>>
        /\ <<procCur[pid].name, procCur[pid].path>> \in DOMAIN process_records
        /\ process_records[<<procCur[pid].name, procCur[pid].path>>].is_trusted
               = known_processes[pid].is_trusted
        /\ IF ~known_processes[pid].is_trusted /\ now - procCur[pid].create_time < 60
           THEN /\ Len(NewProcessEvents(pid)) = 1
                /\ NewProcessEvents(pid)[1].source = "process_monitor"
                /\ NewProcessEvents(pid)[1].data.risk_score
                       = known_processes[pid].risk_score
           ELSE NewProcessEvents(pid) = << >>

\* The risk score of the claim for an untrusted sample, in tenths.
ClaimedRiskScore(info) ==
    Min2(1000,
         (IF info.path = NoPath THEN 200 ELSE 0)
         + Min2(200, 5 * info.num_connections)
         + Min2(150, 10 * info.memory_percent)
         + (IF info.cpu_percent > 50 THEN Min2(150, 3 * (info.cpu_percent - 50)) ELSE 0)
         + (IF info.write_bytes > 50 * MiB THEN 150 ELSE 0)
         + (IF info.cmdline_suspicious THEN 150 ELSE 0))

\* C35: the risk score computed for an untrusted process sample is min(100,
\* 20 for an absent path + min(20, 0.5 * num_connections) + min(15, memory_pct)
\* + min(15, 0.3 * (cpu_pct - 50)) above 50 + 15 for more than 50 MiB written
\* + 15 for a listed command line pattern), the connection and memory terms
\* being added for every value of num_connections and memory_pct.
C35_RiskScoreFormula ==
    \A pid \in DOMAIN known_processes :
        ~known_processes[pid].is_trusted =>
            known_processes[pid].risk_score = ClaimedRiskScore(known_processes[pid])

\* A scan met a new process that is trusted and recent, and enqueued nothing for it.
C34_Witness ==
    \E pid \in ArrivedPids :
        /\ procScans > 1
        /\ known_processes[pid].is_trusted
        /\ now - procCur[pid].create_time < 60
        /\ NewProcessEvents(pid) = << >>

\* The process_mutation events the last scan put for pid.
MutationEvents(pid) ==
    SelectSeq(procEmitted, LAMBDA e : e.event_type = "process_mutation" /\ e.data.pid = pid)

\* pid is in the last two snapshots with the same name, path and create_time.
KeepsIdentity(pid) ==
    /\ pid \in DOMAIN procCur \cap DOMAIN procPrev
    /\ procCur[pid].name = procPrev[pid].name
    /\ procCur[pid].path = procPrev[pid].path
    /\ procCur[pid].create_time = procPrev[pid].create_time

\* C37: a change of a live PID's name or path with unchanged create_time is
\* reported once: a scan in which the PID has the name, path and create_time it
\* had in the scan before emits no process_mutation for it, and the scan that
\* meets the change emits exactly one.
C37_MutationReportedOnce ==
    \A pid \in DOMAIN procCur \cap DOMAIN procPrev :
        /\ KeepsIdentity(pid) => MutationEvents(pid) = << >>
        /\ (/\ procCur[pid].create_time = procPrev[pid].create_time
            /\ \/ procCur[pid].name # procPrev[pid].name
               \/ procCur[pid].path # procPrev[pid].path)
           => Len(MutationEvents(pid)) = 1

\* The scan after the one that reported a mutation of a PID met the PID with the
\* same new identity and emitted no process_mutation: the queue still holds the
\* one event of the earlier scan.
C37_Witness ==
    \E pid \in DOMAIN procCur :
        /\ KeepsIdentity(pid)
        /\ MutationEvents(pid) = << >>
        /\ Len(SelectSeq(event_queue,
                         LAMBDA e : /\ e.event_type = "process_mutation"
                                    /\ e.data.pid = pid
                                    /\ e.data.process_name = procCur[pid].name
                                    /\ e.data.path = procCur[pid].path)) = 1

----------------------------------------------------------------------------
(* Claims on the whitelist: built-in names and remove *)

\* C22: after any sequence of add, remove and clear_cache calls, is_trusted answers
\* true for a built-in name in any letter case, with any path and hash: every such
\* call made did, and every such call that could be made now would; a remove, also
\* one that deleted a store row of a built-in name, never makes the name untrusted.
C22_BuiltinAlwaysTrusted ==
    /\ \A q \in BuiltinQueries : IsTrustedResult(cache, trust_db, q[1], q[2], q[3])
    /\ (trustCall.op = "is_trusted" /\ Lower(trustCall.name) \in SystemProcesses)
           => trustCall.result

\* remove has just deleted the store row that an add of the built-in name had made.
C22_Witness ==
    /\ trustCall.op = "remove"
    /\ Lower(trustCall.name) \in SystemProcesses
    /\ trustCall.result
    /\ \A i \in 1..Len(trust_db) : trust_db[i].name # trustCall.name

----------------------------------------------------------------------------
(* Claims on the notification manager *)

\* C16: over any sequence of notify calls, calls made at once from different threads
\* included, no two notifications are forwarded to the channel less than 5 seconds
\* apart.
C16_ForwardedFiveSecondsApart ==
    \A i, j \in 1..Len(forwarded) :
        i < j => /\ forwarded[j].time - forwarded[i].time >= 5
                    \/ forwarded[i].time - forwarded[j].time >= 5

RECURSIVE SuffixSum(_)
\* The sum of the numbers N of the suffixes of a list of forwarded notifications.
SuffixSum(fs) == IF fs = << >> THEN 0 ELSE Head(fs).suffix + SuffixSum(Tail(fs))

\* No notify() call is under way.
NotifyQuiet == \A t \in NotifyThreads : npc[t] = "idle"

\* C17: every notification the limiter suppressed is counted exactly once: when no
\* call is under way, the numbers N of the suffixes forwarded so far and the pending
\* count, which the next forwarded notification will carry, add up to the number of
\* suppressed notifications.
C17_SuppressedCountedOnce ==
    NotifyQuiet => SuffixSum(forwarded) + pending_count = suppressedTotal

----------------------------------------------------------------------------
(* The anomaly detector during a retrain *)

\* A predict() call that began inside a retrain has returned.
PredictedDuringRetrain == lastPredict.during /\ lastPredict.result # NONE

\* C18: while a background retrain is in progress, a predict() call of the dispatcher
\* does not wait for the retrain to finish (its _predict_score step can be taken while
\* the retrain thread is inside train()), and the call computes a score with the model
\* and the scaler that were trained before the retrain began.
C18_PredictDuringRetrain ==
    /\ (dpc = "predict_score" /\ RetrainInProgress) => ENABLED PredictScore
    /\ (PredictedDuringRetrain /\ lastPredict.previous_model # NoEstimator) =>
           /\ lastPredict.result = "scored"
           /\ lastPredict.model = lastPredict.previous_model
           /\ lastPredict.scaler = lastPredict.previous_scaler

----------------------------------------------------------------------------
(* The collector loops after the stop flag is set *)

\* The loop of collector c begins a tick in this step: its test lets it go on.
TickStarts(c) == cpc[c] = "test" /\ cpc'[c] \in {"scan", "wait"}

AllReturned == \A c \in Loops : cpc[c] = "returned"

\* C19: once the shared stop flag is set, no collector loop begins a further tick,
\* and every start() call returns in the end, wherever the loop was (in a scan or in
\* the wait between two ticks) when the flag was set.
C19_LoopsStopOnFlag ==
    /\ [][stop_event => \A c \in Loops : ~TickStarts(c)]_vars
    /\ stop_event ~> AllReturned

\* The flag was set while one loop was in a scan and another in its wait, and every
\* start() call has returned.
C19_Witness ==
    /\ stop_event
    /\ AllReturned
    /\ \E c \in Loops : stopAt[c] = "scan"
    /\ \E c \in Loops : stopAt[c] = "wait"

----------------------------------------------------------------------------
(* Claims on the whitelist shared by the dashboard and the process collector *)

\* The last whitelist mutation is a remove that returned true, of a name that is
\* not built-in, and it left no row of that name in the store.
EntryRemoved(name) ==
    /\ trustCall.op = "remove"
    /\ trustCall.name = name
    /\ trustCall.result
    /\ Lower(name) \notin SystemProcesses
    /\ \A i \in 1..Len(trust_db) : trust_db[i].name # name

\* C26: after a remove issued through any component has deleted the trust entry
\* of a name that is not built-in, every later is_trusted call for that name
\* with a path outside the system prefixes returns false, whichever component
\* makes it: the process collector with the cache of its scans, or a dashboard
\* route with its fresh one.
C26_RemovedNameNotTrusted ==
    \A name \in DashboardNames :
        EntryRemoved(name) =>
            \A path \in {NoPath, PlainPath}, hash \in {NONE, "h1"} :
                /\ ~IsTrustedResult(cache, trust_db, name, path, hash)
                /\ ~IsTrustedResult({}, trust_db, name, path, hash)

\* C27: after remove(name) with no path returned true for a name that is not
\* built-in, the store holds no row with that name, the cache holds no key of
\* it, and is_trusted(name, p, h) returns false for every path p outside the
\* system prefixes and every hash h, however many entries of the name were added.
C27_RemoveLeavesNoEntry ==
    \A q \in TrustRemoves :
        /\ trustCall.op = "remove"
        /\ trustCall.name = q[1]
        /\ trustCall.path = NoPath
        /\ trustCall.result
        /\ Lower(q[1]) \notin SystemProcesses
        => /\ \A i \in 1..Len(trust_db) : trust_db[i].name # q[1]
           /\ \A k \in cache : k[1] # Lower(q[1])
           /\ \A path \in {NoPath, PlainPath}, hash \in {NONE, "h1"} :
                  ~IsTrustedResult(cache, trust_db, q[1], path, hash)

----------------------------------------------------------------------------
(* Claims on the heuristics cooldown table *)

\* C28: the cooldown table holds entries only for PIDs that are still tracked:
\* the entries (pattern, pid) are gone once the activity of pid has been evicted.
C28_CooldownOnlyTrackedPids ==
    \A k \in DOMAIN alert_cooldowns : k[2] \in DOMAIN process_activities

----------------------------------------------------------------------------
(* Claims on the registry collector *)

\* The last step was a tick whose read of the watched key failed.
ReadFailedOnTick == regScans > 0 /\ regRead.status \in {"missing", "denied"}

\* C29: a tick on which the read of a watched key fails (the key is missing or
\* the read is denied) emits no registry event for that key, whatever values
\* the previous snapshot of the key held.
C29_FailedReadNoEvent ==
    ReadFailedOnTick => \A i \in 1..Len(regEmitted) : regEmitted[i].data.key_path # RunKey

\* The kinds of the events the last tick emitted for the value name, in order.
EventKindsOf(name) ==
    LET evs == SelectSeq(regEmitted, LAMBDA e : e.data.value_name = name)
    IN  [ i \in 1..Len(evs) |-> evs[i].event_type ]

\* What the tick has to report of a value that read as before and reads as after.
ExpectedKinds(before, after, name) ==
    IF name \notin DOMAIN before /\ name \in DOMAIN after THEN << "registry_added" >>
    ELSE IF name \in DOMAIN before /\ name \notin DOMAIN after THEN << "registry_deleted" >>
    ELSE IF name \in DOMAIN before /\ before[name] # after[name]
    THEN << "registry_modified" >>
    ELSE << >>

\* The last step was a tick, and the read before its read returned before and its
\* read returned after.
BothReadsSucceeded == regScans > 0 /\ regPrevRead.status = "ok" /\ regRead.status = "ok"

\* C30: a value that is added, modified or deleted between two consecutive reads
\* that both succeeded is reported on the later tick by exactly one event, of
\* the matching kind, and a value that two consecutive reads returned unchanged
\* (so also a value reported on an earlier tick) is reported by no event.
C30_OneEventPerChange ==
    LET before == ReadKeyValues(regPrevRead)
        after == ReadKeyValues(regRead)
    IN  \A i \in 1..Len(ValueNames) :
            LET name == ValueNames[i]
            IN  /\ BothReadsSucceeded =>
                       EventKindsOf(name) = ExpectedKinds(before, after, name)
                /\ (/\ regScans > 0
                    /\ name \in DOMAIN before \cap DOMAIN after
                    /\ before[name] = after[name]) => EventKindsOf(name) = << >>

\* A tick between two successful reads that reports a modified and an added value.
C30_Witness ==
    /\ BothReadsSucceeded
    /\ EventKindsOf("updater") = << "registry_modified" >>
    /\ EventKindsOf("helper") = << "registry_added" >>
    /\ regScans > 1

----------------------------------------------------------------------------
(* Claims on the anomaly detector: retrain schedule and failed training *)

\* update_incremental starts the retrain thread in this step.
SchedulesRetrain == tpc = "none" /\ tpc' = "start"

\* C31: update_incremental schedules a background retrain only on every 500th
\* newly added sample once the minimum is reached, never more often, also
\* after the training ring has reached its capacity.
C31_RetrainEvery500th ==
    [][SchedulesRetrain =>
           /\ SamplesAdded' % RetrainEvery = 0
           /\ SamplesAdded' >= MinSamples]_vars

\* The last train() call began on a trained detector, ended in its except branch
\* and has returned.
FailedRetrain ==
    /\ lastTrain.raised
    /\ lastTrain.returned # NONE
    /\ lastTrain.previous_model.fitted
    /\ lastTrain.previous_scaler.fitted

\* C38: when a training attempt on an already trained detector fails with an
\* exception, train returns false and the model and the scaler that _predict_score
\* reads afterwards are the ones that were trained before the attempt, so a
\* predict call that began after the failure and reached _predict_score is scored.
C38_FailedTrainKeepsModel ==
    FailedRetrain =>
        /\ lastTrain.returned = "false"
        /\ ml_model = lastTrain.previous_model
        /\ ml_scaler = lastTrain.previous_scaler
        /\ (/\ lastPredict.result # NONE
            /\ ~lastPredict.during
            /\ lastPredict.previous_model = ml_model
            /\ lastPredict.previous_model # NoEstimator) => lastPredict.result = "scored"

----------------------------------------------------------------------------
(* Claims on the heuristics: staging order, eviction, exceptions *)

\* alerts holds an alert of pattern p.
Alerted(as, p) == \E j \in 1..Len(as) : as[j].source = <<"heuristics", p>>

\* C40: analyze returns for every event, also when a pattern check raises on a
\* recorded entry whose path or key is missing: a pattern whose check raises
\* yields no alert and leaves its cooldown as it was, and every other pattern
\* that is off cooldown is evaluated as if nothing had raised: it alerts and
\* sets its cooldown exactly when its check matches.
C40_PatternErrorIsolated ==
    [][(analyzed' = analyzed + 1 /\ lastEvent'.pid # NoPid) =>
          \E ev \in {lastEvent'} :
             LET pid == ev.pid
                 a1  == RecordEvent(GetOrCreateActivity(process_activities, pid,
                                                        ev.process_name, now), ev, now)
             IN  \A i \in 1..Len(PatternNames) :
                    LET p == PatternNames[i]
                        k == <<p, pid>>
                        unchanged ==
                            /\ (k \in DOMAIN alert_cooldowns') = (k \in DOMAIN alert_cooldowns)
                            /\ k \in DOMAIN alert_cooldowns
                                   => alert_cooldowns'[k] = alert_cooldowns[k]
                    IN  IF \/ IsOnCooldown(alert_cooldowns, p, pid, now)
                           \/ PatternRaises(a1, p, now)
                        THEN ~Alerted(alerts', p) /\ unchanged
                        ELSE IF EvaluatePattern(a1, p, now)
                        THEN /\ Alerted(alerts', p)
                             /\ k \in DOMAIN alert_cooldowns'
                             /\ alert_cooldowns'[k] = now
                        ELSE ~Alerted(alerts', p) /\ unchanged]_vars

\* The last analyze() call met a recorded file access without a path: the check
\* of credential_theft raised, no alert and no cooldown came of it, and the later
\* pattern registry_persistence was evaluated and reported.
C40_Witness ==
    /\ analyzed > 0
    /\ lastEvent.pid \in DOMAIN process_activities
    /\ "credential_theft" \notin lastOnCooldown
    /\ PatternRaises(process_activities[lastEvent.pid], "credential_theft", now)
    /\ ~Alerted(alerts, "credential_theft")
    /\ <<"credential_theft", lastEvent.pid>> \notin DOMAIN alert_cooldowns
    /\ Alerted(alerts, "registry_persistence")

\* The times of the analyze() calls that recorded something for the activity,
\* the call that created it included.
AnalysisTimes(a) ==
    {a.first_seen}
    \cup { a.file_accesses[i].timestamp : i \in 1..Len(a.file_accesses) }
    \cup { a.network_events[i].timestamp : i \in 1..Len(a.network_events) }
    \cup { a.registry_events[i].timestamp : i \in 1..Len(a.registry_events) }

\* Since the activity was created, an event of its PID was analyzed at least once
\* per correlation window, up to the reading t of the clock.
SteadilyAnalyzed(a, t) ==
    \A x \in (AnalysisTimes(a) \cup {t}) \ {a.first_seen} :
        \E y \in AnalysisTimes(a) : y < x /\ x - y <= CorrelationWindow

\* get_process_risk_score(pid)
GetProcessRiskScore(acts, pid) ==
    IF pid \in DOMAIN acts THEN acts[pid].risk_score ELSE 0

\* C39: as long as events of a PID keep being analyzed at least once per
\* correlation window, an analyze() call for the PID does not evict its activity:
\* the risk score get_process_risk_score reports does not decrease, and
\* bytes_uploaded, sensitive_files_accessed and first_seen are not reset.
C39_ActivePidNotEvicted ==
    [][\A pid \in DOMAIN process_activities :
          (/\ analyzed' = analyzed + 1
           /\ lastEvent'.pid = pid
           /\ SteadilyAnalyzed(process_activities[pid], now))
          => /\ pid \in DOMAIN process_activities'
             /\ GetProcessRiskScore(process_activities', pid)
                    >= GetProcessRiskScore(process_activities, pid)
             /\ process_activities'[pid].first_seen = process_activities[pid].first_seen
             /\ process_activities'[pid].bytes_uploaded
                    >= process_activities[pid].bytes_uploaded
             /\ process_activities'[pid].sensitive_files_accessed
                    >= process_activities[pid].sensitive_files_accessed]_vars

\* The activity holds a created or modified file access under a temp path and a
\* network event with bytes_uploaded > 0 that is later than that access.
UploadAfterSomeTempWrite(a) ==
    \E i \in 1..Len(a.file_accesses) :
        /\ a.file_accesses[i].type \in {"created", "modified"}
        /\ a.file_accesses[i].path.cls = "temp"
        /\ \E j \in 1..Len(a.network_events) :
               /\ a.network_events[j].bytes_uploaded > 0
               /\ a.network_events[j].timestamp > a.file_accesses[i].timestamp

\* No file access of the activity was recorded at the clock reading of one of its
\* network events: the readings of time.time() tell which came first.
ReadingsApart(a) ==
    \A i \in 1..Len(a.file_accesses), j \in 1..Len(a.network_events) :
        a.file_accesses[i].timestamp # a.network_events[j].timestamp

\* C32: staging_behavior matches for a PID whenever its activity holds some temp
\* write and some upload later than that write, whatever other temp writes were
\* recorded after the upload.
C32_StagingMatchesAnyWrite ==
    \A pid \in DOMAIN process_activities :
        (ReadingsApart(process_activities[pid])
         /\ UploadAfterSomeTempWrite(process_activities[pid]))
            => CheckStagingBehavior(process_activities[pid])

----------------------------------------------------------------------------
(* Claims on the file collector *)

\* A path is sensitive iff its lowercase form ends with a configured extension.
SensitivePath(i) ==
    \E ext \in SensitiveExtensions :
        LET lower == LowerText(WatchedFiles[i])
        IN  /\ Len(lower) >= Len(ext)
            /\ \A k \in 1..Len(ext) : lower[Len(lower) - Len(ext) + k] = ext[k]

\* The event of the last callback is sensitive: it is about a file, and its path,
\* or for a move its source or its destination, is sensitive.
SensitiveFileEvent ==
    /\ ~fileCall.is_directory
    /\ \/ SensitivePath(fileCall.src_path)
       \/ (fileCall.kind = "moved" /\ SensitivePath(fileCall.dest_path))

\* C33: the callback of a file system event enqueues a pipeline event, with
\* preliminary risk 30, if and only if the event is about a file and is
\* sensitive (for a move: its source or its destination is); a directory event
\* and an event that is not sensitive enqueue nothing.
C33_SensitiveFileEventEnqueued ==
    /\ [](fileOps > 0 =>
            IF SensitiveFileEvent
            THEN /\ Len(fileEmitted) = 1
                 /\ fileEmitted[1].source = "file_monitor"
                 /\ fileEmitted[1].event_type = "file_" \o fileCall.kind
                 /\ fileEmitted[1].risk_score = 30
                 /\ event_queue # << >>
                 /\ event_queue[Len(event_queue)] = fileEmitted[1]
            ELSE fileEmitted = << >>)
    /\ [][fileOps' # fileOps =>
              IF SensitiveFileEvent'
              THEN event_queue' = QueuePut(event_queue, fileEmitted'[1])
              ELSE event_queue' = event_queue]_vars

\* A move of a file from a path that is not sensitive to one that is.
C33_Witness ==
    /\ fileOps > 0
    /\ fileCall.kind = "moved"
    /\ ~fileCall.is_directory
    /\ ~SensitivePath(fileCall.src_path)
    /\ SensitivePath(fileCall.dest_path)
    /\ Len(fileEmitted) = 1


(***************************************************************************)
(* Claims on the upload rate: the collector's event and the rule           *)
(***************************************************************************)

HighUploadRateRule == DefaultRules[3]

\* C36: every high_upload event the network collector emits is matched by the
\* high_upload_rate rule with the same threshold: the mb_uploaded of its payload
\* is greater than the rule's max_mb_per_min.
C36_HighUploadMatchesRule ==
    \A i \in DOMAIN netEmitted :
        netEmitted[i].event_type = "high_upload"
            => /\ HighUploadRateRule.name = "high_upload_rate"
               /\ EvaluateRule(HighUploadRateRule, netEmitted[i]) # << >>

====
